---- MODULE Spec2Model ----
(***************************************************************************)
(* Generation-hardened arenas of the ut-arena crate: the Generation        *)
(* policies, the ArenaKey, GenericSparseArena (slot array + free list),    *)
(* GenericDenseTracker (forward map + reverse array) and                   *)
(* GenericDenseArena (tracker + packed value array).                       *)
(*                                                                         *)
(* Rust vectors are TLA+ sequences; a Rust index i is position i + 1.      *)
(***************************************************************************)
EXTENDS Integers, Sequences, FiniteSets, TLC

\* ---------------------------------------------------------------- bounds
\* cap on slots.len(): an insert that would grow the slot array past it is
\* not taken
MaxSlots == 2
\* width in bits of the integer behind the gN / gwN generation
GenBits == 2
\* caller values are 0 .. NumValues - 1
NumValues == 3

VARIABLES
    kind,            \* which arena this run drives: "sparse" or "dense"
    G,               \* the generation policy: "saturating", "wrapping", "none"
    free_list_head,  \* GenericSparseArena::free_list_head
    slots,           \* GenericSparseArena::slots
    keys,            \* GenericDenseTracker::keys (reverse array)
    values,          \* GenericDenseArena::values
    map,             \* the reference map of the differential test
    dead_keys,       \* the keys a removal has succeeded on
    count,           \* inserts minus successful removals
    slab_len         \* Slab::len (0 in a run that drives no Slab)

vars == <<kind, G, free_list_head, slots, keys, values, map, dead_keys, count,
          slab_len>>

arena_vars == <<free_list_head, slots, keys, values>>

\* ------------------------------------------------------------ Option<T>
None == <<>>
Some(x) == <<x>>

\* Vec indexing with a Rust (0-based) index
At(vec, i) == vec[i + 1]

\* Vec::swap_remove: take out element i, move the last element into its place
swap_remove(vec, i) ==
    LET last == vec[Len(vec)]
        front == SubSeq(vec, 1, Len(vec) - 1)
    IN  IF i + 1 = Len(vec) THEN front ELSE [front EXCEPT ![i + 1] = last]

\* ----------------------------------------------------------- Generation
\* Generation::EMPTY of the integer policies (NoGeneration: false, written 0)
EMPTY == 0

\* uN::MAX of the backing integer
GenMax == 2 ^ GenBits - 1

\* the width of u8, the integer behind g8
U8Bits == 8

\* the width of the integer behind policy p: g8 is the crate's 8-bit
\* saturating policy, "saturating" and "wrapping" are gN and gwN at GenBits
Bits(p) == IF p = "g8" THEN U8Bits ELSE GenBits

\* uN::MAX for policy p
MAX(p) == 2 ^ Bits(p) - 1

is_empty(p, g) == IF p = "none" THEN g = 0 ELSE g % 2 = 0

is_filled(p, g) == ~is_empty(p, g)

\* self.0 | 1 (NoGeneration: Self(true))
fill(p, g) == IF p = "none" THEN 1 ELSE IF g % 2 = 0 THEN g + 1 ELSE g

\* faulty variant: emptying starts the counter over
try_empty_reset(p, g) == [ok |-> TRUE, generation |-> EMPTY]

\* faulty variant: emptying steps to the next filled generation
try_empty_skip(p, g) ==
    IF p = "none" THEN [ok |-> TRUE, generation |-> 1]
    ELSE IF g + 2 > MAX(p) THEN [ok |-> FALSE, generation |-> EMPTY]
         ELSE [ok |-> TRUE, generation |-> g + 2]

\* faulty variant: every integer policy advances with wrapping_add(1)
try_empty_wrapping_add(p, g) ==
    IF p = "none" THEN [ok |-> TRUE, generation |-> 0]
    ELSE [ok |-> TRUE, generation |-> (g + 1) % (MAX(p) + 1)]

\* faulty variant: the saturating policies give up one generation early
try_empty_early(p, g) ==
    CASE p \in {"saturating", "g8"} ->
            IF g + 2 >= MAX(p) THEN [ok |-> FALSE, generation |-> EMPTY]
                              ELSE [ok |-> TRUE, generation |-> g + 1]
      [] p = "wrapping" -> [ok |-> TRUE, generation |-> (g + 1) % (MAX(p) + 1)]
      [] OTHER -> [ok |-> TRUE, generation |-> 0]

\* faulty variant: the wrapping policies advance with checked_add(1) too
try_empty_checked_add(p, g) ==
    IF p = "none" THEN [ok |-> TRUE, generation |-> 0]
    ELSE IF g + 1 > MAX(p) THEN [ok |-> FALSE, generation |-> EMPTY]
         ELSE [ok |-> TRUE, generation |-> g + 1]

\* faulty variant: the wrapping counter is one bit narrower than its type
try_empty_narrow(p, g) ==
    CASE p \in {"saturating", "g8"} ->
            IF g + 1 > MAX(p) THEN [ok |-> FALSE, generation |-> EMPTY]
                              ELSE [ok |-> TRUE, generation |-> g + 1]
      [] p = "wrapping" -> [ok |-> TRUE, generation |-> (g + 1) % (2 ^ (Bits(p) - 1))]
      [] OTHER -> [ok |-> TRUE, generation |-> 0]

\* saturating: checked_add(1); wrapping: wrapping_add(1); NoGeneration: Ok(false)
try_empty(p, g) ==
    CASE p \in {"saturating", "g8"} ->
            IF g + 1 > MAX(p) THEN [ok |-> FALSE, generation |-> EMPTY]
                              ELSE [ok |-> TRUE, generation |-> g + 1]
      [] p = "wrapping" -> [ok |-> TRUE, generation |-> (g + 1) % (MAX(p) + 1)]
      [] OTHER -> [ok |-> TRUE, generation |-> 0]

\* the snapshot stored in keys (NoGeneration: the unit value, written 1)
to_filled(p, g) == IF p = "none" THEN 1 ELSE g

\* faulty variant: the low bit is masked in before the comparison
matches_masked(p, g, filled) ==
    IF p = "none" THEN g = 1 ELSE (IF g % 2 = 0 THEN g + 1 ELSE g) = filled

\* faulty variant: NoGeneration matches whether the slot is filled or not
matches_unit(p, g, filled) == IF p = "none" THEN TRUE ELSE g = filled

\* faulty variant: the snapshot is ignored, any filled generation matches
matches_is_filled(p, g, filled) == is_filled(p, g)

matches(p, g, filled) == IF p = "none" THEN g = 1 ELSE g = filled

\* ------------------------------------------------------------- ArenaKey
ArenaKey_new(index, filled) == [index |-> index, generation |-> filled]

to_index(key) == key.index

\* a plain usize used as a key: it has no generation field
NoSnapshot == -1

UsizeKey(index) == [index |-> index, generation |-> NoSnapshot]

\* ArenaKey compares its snapshot, a usize key only asks for a filled slot
matches_generation(p, key, g) ==
    IF key.generation = NoSnapshot THEN is_filled(p, g)
    ELSE matches(p, g, key.generation)

\* the filled snapshots a key can carry
FilledGenerations == {g \in 1..GenMax : g % 2 = 1}

\* the values of Generation::Filled under policy p: to_filled is its only
\* constructor, so the odd generations (NoGeneration: the unit value)
FilledOf(p) == IF p = "none" THEN {1} ELSE {f \in 1..MAX(p) : f % 2 = 1}

\* the keys callers present: every index up to one past the cap, every snapshot
AllKeys == [index : 0..MaxSlots, generation : FilledGenerations]

\* the keys callers present under policy p: the snapshot of NoGeneration is
\* the unit value, so there is one key per index
KeysOf(p) == IF p = "none" THEN {k \in AllKeys : k.generation = 1} ELSE AllKeys

\* the key field of an operation that has no key
NoKey == [index |-> 0, generation |-> 0]

\* ----------------------------------------------------------------- Slot
\* the inactive variant of the Slot union
Uninit == -1

FilledSlot(generation, value) ==
    [generation |-> generation, value |-> value, next_empty_slot |-> Uninit]

EmptySlot(generation, next_empty_slot) ==
    [generation |-> generation, value |-> Uninit, next_empty_slot |-> next_empty_slot]

\* faulty variant: the emptied slot restarts at Generation::EMPTY
Slot_remove_reset(p, slot, index, head) ==
    [slot |-> EmptySlot(EMPTY, head),
     free_list_head |-> index,
     value |-> slot.value]

\* faulty variant: an exhausted slot is linked into the free list like any
\* other, at generation EMPTY
Slot_remove_relink(p, slot, index, head) ==
    LET r == try_empty(p, slot.generation)
    IN  [slot |-> EmptySlot(r.generation, head),
         free_list_head |-> index,
         value |-> slot.value]

\* Slot::remove: empty the slot; link it into the free list unless the
\* generation is exhausted
Slot_remove(p, slot, index, head) ==
    LET r == try_empty(p, slot.generation)
    IN  IF r.ok
        THEN [slot |-> EmptySlot(r.generation, head),
              free_list_head |-> index,
              value |-> slot.value]
        ELSE [slot |-> EmptySlot(EMPTY, index),
              free_list_head |-> head,
              value |-> slot.value]

\* faulty variant: the slot drops its value field whatever the generation says
Slot_drop_ungated(p, slot) == TRUE

\* Drop for Slot, for a T with drop glue: the value is dropped iff the
\* generation says the slot is filled
Slot_drop(p, slot) == is_filled(p, slot.generation)

\* --------------------------------------------------- GenericSparseArena
\* an arena value: [free_list_head, slots]
Sparse_new == [free_list_head |-> 0, slots |-> <<>>]

\* the closures passed to insert_with: a constant (insert's `move |_| value`)
\* or a value computed from the key
ConstFn(v) == [const |-> TRUE, c |-> v]

KeyFn(c) == [const |-> FALSE, c |-> c]

Apply(f, key) ==
    IF f.const THEN f.c ELSE (f.c + key.index + key.generation) % NumValues

\* faulty variant: the pushed slot links to itself, not one past the new end
reserve_vacant_slot_slow_self(A) ==
    [A EXCEPT !.slots = Append(@, EmptySlot(EMPTY, A.free_list_head))]

reserve_vacant_slot_slow(A) ==
    [A EXCEPT !.slots = Append(@, EmptySlot(EMPTY, A.free_list_head + 1))]

\* faulty variant: reserving the vacant slot already stamps its generation
Sparse_vacant_slot_stamped(A) ==
    LET A1 == IF A.free_list_head = Len(A.slots)
              THEN reserve_vacant_slot_slow(A) ELSE A
        head == A1.free_list_head
    IN  [arena |-> [A1 EXCEPT !.slots[head + 1].generation = @ + 1],
         next_empty_slot |-> At(A1.slots, head).next_empty_slot]

\* faulty variant: every reservation pushes a fresh slot in front of the free
\* list, whether or not an empty slot was waiting
Sparse_vacant_slot_pushing(A) ==
    [arena |-> [free_list_head |-> Len(A.slots),
                slots |-> Append(A.slots, EmptySlot(EMPTY, A.free_list_head))],
     next_empty_slot |-> A.free_list_head]

\* a VacantSlot: the arena it borrows (grown when the free list was empty)
\* and the link read out of the head slot
Sparse_vacant_slot(A) ==
    LET A1 == IF A.free_list_head = Len(A.slots)
              THEN reserve_vacant_slot_slow(A) ELSE A
    IN  [arena |-> A1,
         next_empty_slot |-> At(A1.slots, A1.free_list_head).next_empty_slot]

\* faulty variant: the key names the slot the vacant one links to
VacantSlot_key_linked(p, vs) ==
    LET slot == At(vs.arena.slots, vs.arena.free_list_head)
    IN  ArenaKey_new(vs.next_empty_slot, to_filled(p, fill(p, slot.generation)))

\* faulty variant: the key carries the slot's generation as it is, not filled
VacantSlot_key_unfilled(p, vs) ==
    LET slot == At(vs.arena.slots, vs.arena.free_list_head)
    IN  ArenaKey_new(vs.arena.free_list_head, to_filled(p, slot.generation))

VacantSlot_key(p, vs) ==
    LET slot == At(vs.arena.slots, vs.arena.free_list_head)
    IN  ArenaKey_new(vs.arena.free_list_head, to_filled(p, fill(p, slot.generation)))

\* faulty variant: the rest of the free list is forgotten, the head is set
\* past the end of the slot array
VacantSlot_insert_forget(p, vs, value) ==
    LET head == vs.arena.free_list_head
        slot == At(vs.arena.slots, head)
    IN  [free_list_head |-> Len(vs.arena.slots),
         slots |-> [vs.arena.slots EXCEPT
                        ![head + 1] = FilledSlot(fill(p, slot.generation), value)]]

VacantSlot_insert(p, vs, value) ==
    LET head == vs.arena.free_list_head
        slot == At(vs.arena.slots, head)
    IN  [free_list_head |-> vs.next_empty_slot,
         slots |-> [vs.arena.slots EXCEPT
                        ![head + 1] = FilledSlot(fill(p, slot.generation), value)]]

Sparse_insert_with(p, A, f) ==
    LET vs == Sparse_vacant_slot(A)
        key == VacantSlot_key(p, vs)
    IN  [arena |-> VacantSlot_insert(p, vs, Apply(f, key)), key |-> key, arg |-> key]

\* faulty variant: insert pushes a new slot whether or not the free list has
\* one to reuse
Sparse_insert_growing(p, A, value) ==
    [arena |-> [free_list_head |-> IF A.free_list_head = Len(A.slots)
                                   THEN A.free_list_head + 1
                                   ELSE A.free_list_head,
                slots |-> Append(A.slots, FilledSlot(fill(p, EMPTY), value))],
     key |-> ArenaKey_new(Len(A.slots), to_filled(p, fill(p, EMPTY))),
     arg |-> NoKey]

\* faulty variant: the fast path pushes the slot and leaves the head behind
Sparse_insert_stale_head(p, A, value) ==
    IF A.free_list_head = Len(A.slots)
    THEN [arena |-> [free_list_head |-> A.free_list_head,
                     slots |-> Append(A.slots, FilledSlot(fill(p, EMPTY), value))],
          key |-> ArenaKey_new(A.free_list_head, to_filled(p, fill(p, EMPTY))),
          arg |-> NoKey]
    ELSE Sparse_insert_with(p, A, ConstFn(value))

Sparse_insert(p, A, value) ==
    IF A.free_list_head = Len(A.slots)
    THEN [arena |-> [free_list_head |-> A.free_list_head + 1,
                     slots |-> Append(A.slots, FilledSlot(fill(p, EMPTY), value))],
          key |-> ArenaKey_new(A.free_list_head, to_filled(p, fill(p, EMPTY))),
          arg |-> NoKey]
    ELSE Sparse_insert_with(p, A, ConstFn(value))

\* faulty variant: an index past the end is clamped to the last slot
Sparse_get_ref_clamped(p, A, key) ==
    LET index == IF to_index(key) < Len(A.slots) THEN to_index(key)
                 ELSE Len(A.slots) - 1
    IN  IF index < 0 THEN None
        ELSE IF matches_generation(p, key, At(A.slots, index).generation)
             THEN Some(index)
             ELSE None

\* the free list: the indices met following next_empty_slot from h, for at
\* most n steps, up to the index one past the end
RECURSIVE FreeListFrom(_, _, _)
FreeListFrom(A, h, n) ==
    IF n = 0 \/ h < 0 \/ h >= Len(A.slots) THEN {}
    ELSE {h} \cup FreeListFrom(A, At(A.slots, h).next_empty_slot, n - 1)

FreeList(A) == FreeListFrom(A, A.free_list_head, Len(A.slots))

\* the slot whose filled value get / get_mut borrow (None: absent)
Sparse_get_ref(p, A, key) ==
    IF ~(to_index(key) < Len(A.slots)) THEN None
    ELSE IF matches_generation(p, key, At(A.slots, to_index(key)).generation)
         THEN Some(to_index(key))
         ELSE None

Deref(A, r) == IF r = None THEN None ELSE Some(At(A.slots, r[1]).value)

Sparse_get(p, A, key) == Deref(A, Sparse_get_ref(p, A, key))

Sparse_get_mut(p, A, key) == Deref(A, Sparse_get_ref(p, A, key))

\* get_unchecked_mut with a plain index, followed by a write through it
Sparse_get_unchecked_mut(A, index, value) ==
    [A EXCEPT !.slots[index + 1].value = value]

\* faulty variant: no emptiness test, every slot in bounds has a key
Sparse_try_key_of_any(p, A, index) ==
    IF ~(index < Len(A.slots)) THEN None
    ELSE Some(ArenaKey_new(index, to_filled(p, fill(p, At(A.slots, index).generation))))

\* try_key_of: the key of the value in slot `index` (None: empty or out of
\* bounds)
Sparse_try_key_of(p, A, index) ==
    IF ~(index < Len(A.slots)) THEN None
    ELSE IF is_filled(p, At(A.slots, index).generation)
         THEN Some(ArenaKey_new(index, to_filled(p, At(A.slots, index).generation)))
         ELSE None

\* key_of: self.slots[index] panics out of bounds, access_empty_slot panics
\* on an empty slot
Sparse_key_of(p, A, index) ==
    IF ~(index < Len(A.slots)) THEN [key |-> NoKey, panic |-> TRUE]
    ELSE IF is_empty(p, At(A.slots, index).generation)
         THEN [key |-> NoKey, panic |-> TRUE]
         ELSE [key |-> ArenaKey_new(index, to_filled(p, At(A.slots, index).generation)),
               panic |-> FALSE]

\* key_of_unchecked: no bounds test, no emptiness test
Sparse_key_of_unchecked(p, A, index) ==
    IF index >= 0 /\ index < Len(A.slots)
    THEN [key |-> ArenaKey_new(index, to_filled(p, At(A.slots, index).generation)),
          ub |-> is_empty(p, At(A.slots, index).generation)]
    ELSE [key |-> NoKey, ub |-> TRUE]

\* faulty variant: any filled slot is removed, whatever the key's snapshot
Sparse_try_remove_any_filled(p, A, key) ==
    LET index == to_index(key)
    IN  IF ~(index < Len(A.slots)) THEN [arena |-> A, res |-> None]
        ELSE IF is_filled(p, At(A.slots, index).generation)
             THEN LET r == Slot_remove(p, At(A.slots, index), index, A.free_list_head)
                  IN  [arena |-> [free_list_head |-> r.free_list_head,
                                  slots |-> [A.slots EXCEPT ![index + 1] = r.slot]],
                       res |-> Some(r.value)]
             ELSE [arena |-> A, res |-> None]

Sparse_try_remove(p, A, key) ==
    LET index == to_index(key)
    IN  IF ~(index < Len(A.slots)) THEN [arena |-> A, res |-> None]
        ELSE IF matches_generation(p, key, At(A.slots, index).generation)
             THEN LET r == Slot_remove(p, At(A.slots, index), index, A.free_list_head)
                  IN  [arena |-> [free_list_head |-> r.free_list_head,
                                  slots |-> [A.slots EXCEPT ![index + 1] = r.slot]],
                       res |-> Some(r.value)]
             ELSE [arena |-> A, res |-> None]

\* faulty variant: remove gives up quietly, as try_remove does
Sparse_remove_quiet(p, A, key) ==
    LET r == Sparse_try_remove(p, A, key)
    IN  [arena |-> r.arena, res |-> r.res, panic |-> FALSE]

\* remove: the slice index and assert_matches_generation panic
Sparse_remove(p, A, key) ==
    LET index == to_index(key)
    IN  IF ~(index < Len(A.slots)) THEN [arena |-> A, res |-> None, panic |-> TRUE]
        ELSE IF ~matches_generation(p, key, At(A.slots, index).generation)
             THEN [arena |-> A, res |-> None, panic |-> TRUE]
             ELSE LET r == Slot_remove(p, At(A.slots, index), index, A.free_list_head)
                  IN  [arena |-> [free_list_head |-> r.free_list_head,
                                  slots |-> [A.slots EXCEPT ![index + 1] = r.slot]],
                       res |-> Some(r.value),
                       panic |-> FALSE]

\* get_unchecked: no bounds test, no generation test; outside the slot array
\* the read is undefined behaviour, in an empty slot it reads the inactive
\* variant of the union
Sparse_get_unchecked(A, key) ==
    IF to_index(key) < Len(A.slots)
    THEN [res |-> At(A.slots, to_index(key)).value, ub |-> FALSE]
    ELSE [res |-> Uninit, ub |-> TRUE]

\* faulty variant: the slot is emptied but the free-list head is left alone
Sparse_remove_unchecked_headless(p, A, key) ==
    LET index == to_index(key)
    IN  IF ~(index < Len(A.slots)) THEN [arena |-> A, res |-> Uninit, ub |-> TRUE]
        ELSE LET r == Slot_remove(p, At(A.slots, index), index, A.free_list_head)
             IN  [arena |-> [free_list_head |-> A.free_list_head,
                             slots |-> [A.slots EXCEPT ![index + 1] = r.slot]],
                  res |-> r.value,
                  ub |-> FALSE]

\* remove_unchecked: Slot::remove on the slot the key names, unconditionally
Sparse_remove_unchecked(p, A, key) ==
    LET index == to_index(key)
    IN  IF ~(index < Len(A.slots)) THEN [arena |-> A, res |-> Uninit, ub |-> TRUE]
        ELSE LET r == Slot_remove(p, At(A.slots, index), index, A.free_list_head)
             IN  [arena |-> [free_list_head |-> r.free_list_head,
                             slots |-> [A.slots EXCEPT ![index + 1] = r.slot]],
                  res |-> r.value,
                  ub |-> is_empty(p, At(A.slots, index).generation)]

\* iter(): the iterators are a window lo..hi-1 on the enumerated slot array
Sparse_iter(A) == [lo |-> 0, hi |-> Len(A.slots)]

\* the filled slots left in the window
IterFilled(p, A, it) ==
    {i \in it.lo..(it.hi - 1) : is_filled(p, At(A.slots, i).generation)}

\* the (key, value) pair the iterator builds for slot i
IterItem(p, A, i) ==
    [key |-> ArenaKey_new(i, to_filled(p, At(A.slots, i).generation)),
     value |-> At(A.slots, i).value]

\* Iter::next: find_map from the front; the slots passed over are consumed
Iter_next(p, A, it) ==
    LET hits == IterFilled(p, A, it)
    IN  IF hits = {} THEN [it |-> [lo |-> it.hi, hi |-> it.hi], item |-> None]
        ELSE LET i == CHOOSE i \in hits : \A j \in hits : i <= j
             IN  [it |-> [lo |-> i + 1, hi |-> it.hi], item |-> Some(IterItem(p, A, i))]

\* faulty variant: the slots are numbered in the order they are visited from
\* the back
Iter_next_back_renumbered(p, A, it) ==
    LET hits == IterFilled(p, A, it)
    IN  IF hits = {} THEN [it |-> [lo |-> it.lo, hi |-> it.lo], item |-> None]
        ELSE LET i == CHOOSE i \in hits : \A j \in hits : i >= j
             IN  [it |-> [lo |-> it.lo, hi |-> i],
                  item |-> Some([key |-> ArenaKey_new(Len(A.slots) - 1 - i,
                                     to_filled(p, At(A.slots, i).generation)),
                                 value |-> At(A.slots, i).value])]

\* Iter::next_back: find_map over the reversed enumeration
Iter_next_back(p, A, it) ==
    LET hits == IterFilled(p, A, it)
    IN  IF hits = {} THEN [it |-> [lo |-> it.lo, hi |-> it.lo], item |-> None]
        ELSE LET i == CHOOSE i \in hits : \A j \in hits : i >= j
             IN  [it |-> [lo |-> it.lo, hi |-> i], item |-> Some(IterItem(p, A, i))]

\* Values::next / next_back: the same scan of the bare slot array
Values_next(p, A, it) ==
    LET hits == IterFilled(p, A, it)
    IN  IF hits = {} THEN [it |-> [lo |-> it.hi, hi |-> it.hi], item |-> None]
        ELSE LET i == CHOOSE i \in hits : \A j \in hits : i <= j
             IN  [it |-> [lo |-> i + 1, hi |-> it.hi],
                  item |-> Some(At(A.slots, i).value)]

Values_next_back(p, A, it) ==
    LET hits == IterFilled(p, A, it)
    IN  IF hits = {} THEN [it |-> [lo |-> it.lo, hi |-> it.lo], item |-> None]
        ELSE LET i == CHOOSE i \in hits : \A j \in hits : i >= j
             IN  [it |-> [lo |-> it.lo, hi |-> i],
                  item |-> Some(At(A.slots, i).value)]

\* Keys::next / next_back: self.iter.next().map(|(key, _)| key)
Keys_next(p, A, it) ==
    LET r == Iter_next(p, A, it)
    IN  [it |-> r.it, item |-> IF r.item = None THEN None ELSE Some(r.item[1].key)]

Keys_next_back(p, A, it) ==
    LET r == Iter_next_back(p, A, it)
    IN  [it |-> r.it, item |-> IF r.item = None THEN None ELSE Some(r.item[1].key)]

\* one call of the iterator method named by `how`
IterStep(how, p, A, it) ==
    CASE how = "iter" -> Iter_next(p, A, it)
      [] how = "iter_back" -> Iter_next_back(p, A, it)
      [] how = "values" -> Values_next(p, A, it)
      [] how = "values_back" -> Values_next_back(p, A, it)
      [] how = "keys" -> Keys_next(p, A, it)
      [] OTHER -> Keys_next_back(p, A, it)

\* the items a loop over the iterator sees: calls until the first None
RECURSIVE Collect(_, _, _, _, _)
Collect(how, p, A, it, n) ==
    LET r == IterStep(how, p, A, it)
    IN  IF n = 0 \/ r.item = None THEN <<>>
        ELSE <<r.item[1]>> \o Collect(how, p, A, r.it, n - 1)

\* Index::index
Sparse_index(p, A, key) ==
    LET index == to_index(key)
    IN  IF ~(index < Len(A.slots)) THEN [res |-> None, panic |-> TRUE]
        ELSE IF ~matches_generation(p, key, At(A.slots, index).generation)
             THEN [res |-> None, panic |-> TRUE]
             ELSE [res |-> Some(At(A.slots, index).value), panic |-> FALSE]

\* IndexMut::index_mut followed by a write through the reference
Sparse_index_mut(p, A, key, value) ==
    LET index == to_index(key)
    IN  IF ~(index < Len(A.slots)) THEN [arena |-> A, panic |-> TRUE]
        ELSE IF ~matches_generation(p, key, At(A.slots, index).generation)
             THEN [arena |-> A, panic |-> TRUE]
             ELSE [arena |-> [A EXCEPT !.slots[index + 1].value = value],
                   panic |-> FALSE]

\* -------------------------------------------------- GenericDenseTracker
\* a tracker value: [keys, index], index a sparse arena of positions
Tracker_new == [keys |-> <<>>, index |-> Sparse_new]

\* faulty variant: the length of the caller's array is not compared
Tracker_vacant_slot_unchecked(T, len) ==
    [panic |-> FALSE, sparse |-> Sparse_vacant_slot(T.index), index_rev |-> T.keys]

\* vacant_slot: assert_eq!(self.keys.len(), len), then the forward map's
\* vacant slot together with the borrowed reverse array
Tracker_vacant_slot(T, len) ==
    IF Len(T.keys) # len
    THEN [panic |-> TRUE, sparse |-> Sparse_vacant_slot(Sparse_new), index_rev |-> T.keys]
    ELSE [panic |-> FALSE, sparse |-> Sparse_vacant_slot(T.index), index_rev |-> T.keys]

\* the tracker as a call of vacant_slot(len) leaves it: the assertion runs
\* before the forward map is asked for its vacant slot
Tracker_vacant_slot_dropped(T, len) ==
    LET vs == Tracker_vacant_slot(T, len)
    IN  IF vs.panic THEN T ELSE [T EXCEPT !.index = vs.sparse.arena]

Tracker_VacantSlot_key(p, vs) == VacantSlot_key(p, vs.sparse)

Tracker_VacantSlot_position(vs) == Len(vs.index_rev)

\* faulty variant: the position goes on the reverse array and the slot index
\* into the forward map
Tracker_VacantSlot_insert_swapped(p, vs) ==
    [keys |-> Append(vs.index_rev, Len(vs.index_rev)),
     index |-> VacantSlot_insert(p, vs.sparse, vs.sparse.arena.free_list_head)]

\* push the slot index (the usize key of the sparse vacant slot) on the
\* reverse array, store the position in the forward map
Tracker_VacantSlot_insert(p, vs) ==
    LET len == Tracker_VacantSlot_position(vs)
    IN  [keys |-> Append(vs.index_rev, vs.sparse.arena.free_list_head),
         index |-> VacantSlot_insert(p, vs.sparse, len)]

Tracker_len(T) == Len(T.keys)

Tracker_get(p, T, key) == Sparse_get(p, T.index, key)

\* faulty variant: the forward map of the key that moved is not patched
Tracker_remove_at_unpatched(T, index_fwd) ==
    IF Len(T.keys) = 0 \/ index_fwd >= Len(T.keys) \/ index_fwd < 0
    THEN [tracker |-> T, position |-> index_fwd, ub |-> TRUE]
    ELSE [tracker |-> [keys |-> swap_remove(T.keys, index_fwd), index |-> T.index],
          position |-> index_fwd,
          ub |-> FALSE]

\* faulty variant: the position returned is the one the moved entry came from
Tracker_remove_at_last(T, index_fwd) ==
    IF Len(T.keys) = 0 \/ index_fwd >= Len(T.keys) \/ index_fwd < 0
    THEN [tracker |-> T, position |-> index_fwd, ub |-> TRUE]
    ELSE LET keys1 == swap_remove(T.keys, index_fwd)
         IN  [tracker |->
                 [keys |-> keys1,
                  index |-> IF index_fwd < Len(keys1)
                            THEN Sparse_get_unchecked_mut(
                                     T.index, At(keys1, index_fwd), index_fwd)
                            ELSE T.index],
              position |-> Len(keys1),
              ub |-> FALSE]

\* remove_at: swap_remove the reverse array, then patch the forward map of
\* the key that moved. Its two unreachable_unchecked branches are undefined
\* behaviour, reported in ub.
Tracker_remove_at(T, index_fwd) ==
    IF Len(T.keys) = 0 \/ index_fwd >= Len(T.keys) \/ index_fwd < 0
    THEN [tracker |-> T, position |-> index_fwd, ub |-> TRUE]
    ELSE LET keys1 == swap_remove(T.keys, index_fwd)
         IN  [tracker |->
                 [keys |-> keys1,
                  index |-> IF index_fwd < Len(keys1)
                            THEN Sparse_get_unchecked_mut(
                                     T.index, At(keys1, index_fwd), index_fwd)
                            ELSE T.index],
              position |-> index_fwd,
              ub |-> FALSE]

Tracker_try_remove(p, T, key) ==
    LET r == Sparse_try_remove(p, T.index, key)
    IN  IF r.res = None
        THEN [tracker |-> T, res |-> None, ub |-> FALSE]
        ELSE LET at == Tracker_remove_at([T EXCEPT !.index = r.arena], r.res[1])
             IN  [tracker |-> at.tracker, res |-> Some(at.position), ub |-> at.ub]

Tracker_remove(p, T, key) ==
    LET r == Sparse_remove(p, T.index, key)
    IN  IF r.panic
        THEN [tracker |-> T, res |-> None, panic |-> TRUE, ub |-> FALSE]
        ELSE LET at == Tracker_remove_at([T EXCEPT !.index = r.arena], r.res[1])
             IN  [tracker |-> at.tracker, res |-> Some(at.position),
                  panic |-> FALSE, ub |-> at.ub]

Tracker_get_unchecked(T, key) == Sparse_get_unchecked(T.index, key)

Tracker_remove_unchecked(p, T, key) ==
    LET r == Sparse_remove_unchecked(p, T.index, key)
        at == Tracker_remove_at([T EXCEPT !.index = r.arena], r.res)
    IN  [tracker |-> at.tracker, res |-> at.position, ub |-> r.ub \/ at.ub]

\* faulty variant: the keys are read off the forward map in slot order
Tracker_keys_by_slot(p, T) ==
    LET all == [i \in 1..Len(T.index.slots) |->
                   Sparse_key_of_unchecked(p, T.index, i - 1)]
        Live(k) == ~k.ub
    IN  SelectSeq(all, Live)

\* keys(): the items Keys::next yields until it returns None, one per entry
\* of the reverse array, each translated back through the forward map
Tracker_keys(p, T) ==
    [i \in 1..Len(T.keys) |-> Sparse_key_of_unchecked(p, T.index, T.keys[i])]

\* at: the panicking lookup, self.index[key]
Tracker_at(p, T, key) == Sparse_index(p, T.index, key)

\* ---------------------------------------------------- GenericDenseArena
\* a dense arena value: [values, tracker]
Dense_new == [values |-> <<>>, tracker |-> Tracker_new]

Dense_vacant_slot(D) ==
    [slot |-> Tracker_vacant_slot(D.tracker, Len(D.values)), vec |-> D.values]

Dense_VacantSlot_key(p, vs) == Tracker_VacantSlot_key(p, vs.slot)

\* faulty variant: the value is put in front of the value array
Dense_VacantSlot_insert_front(p, vs, value) ==
    [values |-> <<value>> \o vs.vec,
     tracker |-> Tracker_VacantSlot_insert(p, vs.slot)]

\* write the value at position(), set_len(position() + 1), commit the tracker
Dense_VacantSlot_insert(p, vs, value) ==
    LET index == Tracker_VacantSlot_position(vs.slot)
    IN  [values |-> [i \in 1..(index + 1) |->
                        IF i = index + 1 THEN value ELSE vs.vec[i]],
         tracker |-> Tracker_VacantSlot_insert(p, vs.slot)]

Dense_insert_with(p, D, f) ==
    LET vs == Dense_vacant_slot(D)
        key == Tracker_VacantSlot_key(p, vs.slot)
    IN  IF vs.slot.panic
        THEN [arena |-> D, key |-> NoKey, arg |-> NoKey, panic |-> TRUE]
        ELSE [arena |-> Dense_VacantSlot_insert(p, vs, Apply(f, key)),
              key |-> key, arg |-> key, panic |-> FALSE]

Dense_insert(p, D, value) == Dense_insert_with(p, D, ConstFn(value))

\* the position in values that get / get_mut borrow (None: absent)
Dense_get_ref(p, D, key) == Tracker_get(p, D.tracker, key)

\* values.get_unchecked(index): outside the array it is undefined behaviour,
\* the value read is then written Uninit
Dense_deref(D, r) ==
    IF r = None THEN None
    ELSE IF r[1] >= 0 /\ r[1] < Len(D.values) THEN Some(At(D.values, r[1]))
         ELSE Some(Uninit)

Dense_get(p, D, key) == Dense_deref(D, Dense_get_ref(p, D, key))

Dense_get_mut(p, D, key) == Dense_deref(D, Dense_get_ref(p, D, key))

\* faulty variant: the last value is popped, whatever the position
Dense_remove_at_pop(D, index) ==
    IF index < 0 \/ index >= Len(D.values)
    THEN [arena |-> D, value |-> Uninit, ub |-> TRUE]
    ELSE [arena |-> [D EXCEPT !.values = SubSeq(@, 1, Len(@) - 1)],
          value |-> D.values[Len(D.values)],
          ub |-> FALSE]

\* remove_at: values.swap_remove(index) under assert_unchecked(index < len)
Dense_remove_at(D, index) ==
    IF index < 0 \/ index >= Len(D.values)
    THEN [arena |-> D, value |-> Uninit, ub |-> TRUE]
    ELSE [arena |-> [D EXCEPT !.values = swap_remove(D.values, index)],
          value |-> At(D.values, index),
          ub |-> FALSE]

\* faulty variant: the value is read but left in the value array
Dense_try_remove_keep(p, D, key) ==
    LET t == Tracker_try_remove(p, D.tracker, key)
    IN  IF t.res = None
        THEN [arena |-> D, res |-> None, ub |-> FALSE]
        ELSE [arena |-> [D EXCEPT !.tracker = t.tracker],
              res |-> Dense_deref(D, t.res),
              ub |-> t.ub]

Dense_try_remove(p, D, key) ==
    LET t == Tracker_try_remove(p, D.tracker, key)
    IN  IF t.res = None
        THEN [arena |-> D, res |-> None, ub |-> FALSE]
        ELSE LET r == Dense_remove_at([D EXCEPT !.tracker = t.tracker], t.res[1])
             IN  [arena |-> r.arena, res |-> Some(r.value), ub |-> t.ub \/ r.ub]

Dense_remove(p, D, key) ==
    LET t == Tracker_remove(p, D.tracker, key)
    IN  IF t.panic
        THEN [arena |-> D, res |-> None, panic |-> TRUE, ub |-> FALSE]
        ELSE LET r == Dense_remove_at([D EXCEPT !.tracker = t.tracker], t.res[1])
             IN  [arena |-> r.arena, res |-> Some(r.value),
                  panic |-> FALSE, ub |-> t.ub \/ r.ub]

Dense_get_unchecked(D, key) ==
    LET t == Tracker_get_unchecked(D.tracker, key)
        v == Dense_deref(D, Some(t.res))
    IN  [res |-> v[1], ub |-> t.ub \/ ~(t.res >= 0 /\ t.res < Len(D.values))]

Dense_remove_unchecked(p, D, key) ==
    LET t == Tracker_remove_unchecked(p, D.tracker, key)
        r == Dense_remove_at([D EXCEPT !.tracker = t.tracker], t.res)
    IN  [arena |-> r.arena, res |-> r.value, ub |-> t.ub \/ r.ub]

\* Index::index: tracker.at(key), then values.get_unchecked
Dense_index(p, D, key) ==
    LET a == Tracker_at(p, D.tracker, key)
    IN  IF a.panic THEN [res |-> None, panic |-> TRUE]
        ELSE [res |-> Dense_deref(D, a.res), panic |-> FALSE]

\* IndexMut::index_mut followed by a write through the reference
Dense_index_mut(p, D, key, value) ==
    LET a == Tracker_at(p, D.tracker, key)
    IN  IF a.panic THEN [arena |-> D, panic |-> TRUE, ub |-> FALSE]
        ELSE IF a.res[1] >= 0 /\ a.res[1] < Len(D.values)
             THEN [arena |-> [D EXCEPT !.values[a.res[1] + 1] = value],
                   panic |-> FALSE, ub |-> FALSE]
             ELSE [arena |-> D, panic |-> FALSE, ub |-> TRUE]

\* ------------------------------------------ the Arena trait of the tests
\* test_arena drives GenericSparseArena and GenericDenseArena through one
\* trait; k is the implementor, A its value
Arena_new(k) == IF k = "sparse" THEN Sparse_new ELSE Dense_new

Arena_slots(k, A) == IF k = "sparse" THEN A.slots ELSE A.tracker.index.slots

\* the sparse arena inside: the arena itself or the tracker's forward map
Arena_sparse(k, A) == IF k = "sparse" THEN A ELSE A.tracker.index

Arena_insert(k, p, A, value) ==
    IF k = "sparse"
    THEN LET r == Sparse_insert(p, A, value)
         IN  [arena |-> r.arena, key |-> r.key, arg |-> r.arg, panic |-> FALSE]
    ELSE Dense_insert(p, A, value)

Arena_insert_with(k, p, A, f) ==
    IF k = "sparse"
    THEN LET r == Sparse_insert_with(p, A, f)
         IN  [arena |-> r.arena, key |-> r.key, arg |-> r.arg, panic |-> FALSE]
    ELSE Dense_insert_with(p, A, f)

\* the storage cell a successful get borrows: a slot index (sparse) or a
\* position of the value array (dense)
Arena_get_ref(k, p, A, key) ==
    IF k = "sparse" THEN Sparse_get_ref(p, A, key) ELSE Dense_get_ref(p, A, key)

Arena_get(k, p, A, key) ==
    IF k = "sparse" THEN Sparse_get(p, A, key) ELSE Dense_get(p, A, key)

Arena_get_mut(k, p, A, key) ==
    IF k = "sparse" THEN Sparse_get_mut(p, A, key) ELSE Dense_get_mut(p, A, key)

Arena_try_remove(k, p, A, key) ==
    IF k = "sparse"
    THEN LET r == Sparse_try_remove(p, A, key)
         IN  [arena |-> r.arena, res |-> r.res, ub |-> FALSE]
    ELSE Dense_try_remove(p, A, key)

Arena_remove(k, p, A, key) ==
    IF k = "sparse"
    THEN LET r == Sparse_remove(p, A, key)
         IN  [arena |-> r.arena, res |-> r.res, panic |-> r.panic, ub |-> FALSE]
    ELSE Dense_remove(p, A, key)

Arena_get_unchecked(k, A, key) ==
    IF k = "sparse" THEN Sparse_get_unchecked(A, key) ELSE Dense_get_unchecked(A, key)

Arena_remove_unchecked(k, p, A, key) ==
    IF k = "sparse" THEN Sparse_remove_unchecked(p, A, key)
    ELSE Dense_remove_unchecked(p, A, key)

Arena_index(k, p, A, key) ==
    IF k = "sparse" THEN Sparse_index(p, A, key) ELSE Dense_index(p, A, key)

Arena_index_mut(k, p, A, key, value) ==
    IF k = "sparse"
    THEN LET r == Sparse_index_mut(p, A, key, value)
         IN  [arena |-> r.arena, panic |-> r.panic, ub |-> FALSE]
    ELSE Dense_index_mut(p, A, key, value)

\* the key a vacant slot of the arena reports
Arena_VacantSlot_key(k, p, A) ==
    IF k = "sparse" THEN VacantSlot_key(p, Sparse_vacant_slot(A))
    ELSE Dense_VacantSlot_key(p, Dense_vacant_slot(A))

\* the arena a VacantSlot leaves behind when it is dropped without insert:
\* VacantSlot has no Drop, so whatever vacant_slot did to the slot array stays
\* and nothing else is touched
Arena_vacant_slot_dropped(k, A) ==
    IF k = "sparse" THEN Sparse_vacant_slot(A).arena
    ELSE [A EXCEPT !.tracker.index = Dense_vacant_slot(A).slot.sparse.arena]

\* -------------------------------------------------------- InternalIndex
\* The operators above are GenericSparseArena with I = usize, the default,
\* whose conversions never fail. The operators below carry the index type I
\* ("u8" or "usize") through the three places where the arena converts a
\* usize into an I, and `debug`, whether the build has debug assertions.

\* from_usize: x.try_into().expect("tried to create a Arena with too many
\* elements"); u8 holds 0 ..= u8::MAX, a usize always fits a usize
from_usize(I, x) == [panic |-> I = "u8" /\ x > 2 ^ U8Bits - 1, value |-> x]

\* from_usize_unchecked: debug_assert!(Self::try_from(x).is_ok()), then the
\* truncating cast `x as Self`
from_usize_unchecked(I, debug, x) ==
    [panic |-> debug /\ I = "u8" /\ x > 2 ^ U8Bits - 1,
     value |-> IF I = "u8" THEN x % (2 ^ U8Bits) ELSE x]

\* to_usize: the widening cast `self as usize`
to_usize(i) == i

\* Slot::remove: mem::replace(free_list_head, index) happens before the link
\* is converted, so when the debug assertion fires the head has moved and the
\* slot is still filled
Ix_Slot_remove(I, debug, p, slot, index, head) ==
    LET r == try_empty(p, slot.generation)
        next_empty_slot == IF r.ok THEN head ELSE index
        link == from_usize_unchecked(I, debug, next_empty_slot)
    IN  [slot |-> IF link.panic THEN slot
                  ELSE EmptySlot(IF r.ok THEN r.generation ELSE EMPTY, link.value),
         free_list_head |-> IF r.ok THEN index ELSE head,
         value |-> slot.value,
         panic |-> link.panic]

\* reserve_vacant_slot_slow: the link is converted before the push
Ix_reserve_vacant_slot_slow(I, A) ==
    LET link == from_usize(I, A.free_list_head + 1)
    IN  IF link.panic THEN [arena |-> A, panic |-> TRUE]
        ELSE [arena |-> [A EXCEPT !.slots = Append(@, EmptySlot(EMPTY, link.value))],
              panic |-> FALSE]

\* vacant_slot: get_unchecked_mut(free_list_head) and a read of the empty
\* variant; undefined behaviour when the head is out of bounds or names a
\* filled slot
Ix_Sparse_vacant_slot(I, A) ==
    LET r == IF A.free_list_head = Len(A.slots)
             THEN Ix_reserve_vacant_slot_slow(I, A)
             ELSE [arena |-> A, panic |-> FALSE]
        head == r.arena.free_list_head
        ub == ~r.panic /\ (head >= Len(r.arena.slots)
                            \/ At(r.arena.slots, head).value # Uninit)
    IN  [arena |-> r.arena,
         next_empty_slot |-> IF r.panic \/ ub THEN Uninit
                             ELSE to_usize(At(r.arena.slots, head).next_empty_slot),
         panic |-> r.panic,
         ub |-> ub]

Ix_Sparse_insert_with(I, p, A, f) ==
    LET vs == Ix_Sparse_vacant_slot(I, A)
    IN  IF vs.panic \/ vs.ub
        THEN [arena |-> A, key |-> NoKey, panic |-> vs.panic, ub |-> vs.ub]
        ELSE LET key == VacantSlot_key(p, vs)
             IN  [arena |-> VacantSlot_insert(p, vs, Apply(f, key)),
                  key |-> key, panic |-> FALSE, ub |-> FALSE]

\* insert: the growth path pushes the filled slot and advances the head
\* without converting anything into an I
Ix_Sparse_insert(I, p, A, value) ==
    IF A.free_list_head = Len(A.slots)
    THEN [arena |-> [free_list_head |-> A.free_list_head + 1,
                     slots |-> Append(A.slots, FilledSlot(fill(p, EMPTY), value))],
          key |-> ArenaKey_new(A.free_list_head, to_filled(p, fill(p, EMPTY))),
          panic |-> FALSE, ub |-> FALSE]
    ELSE Ix_Sparse_insert_with(I, p, A, ConstFn(value))

Ix_Sparse_remove(I, debug, p, A, key) ==
    LET index == to_index(key)
    IN  IF ~(index < Len(A.slots)) THEN [arena |-> A, res |-> None, panic |-> TRUE]
        ELSE IF ~matches_generation(p, key, At(A.slots, index).generation)
             THEN [arena |-> A, res |-> None, panic |-> TRUE]
             ELSE LET r == Ix_Slot_remove(I, debug, p, At(A.slots, index), index,
                                          A.free_list_head)
                  IN  [arena |-> [free_list_head |-> r.free_list_head,
                                  slots |-> [A.slots EXCEPT ![index + 1] = r.slot]],
                       res |-> IF r.panic THEN None ELSE Some(r.value),
                       panic |-> r.panic]

\* ----------------------------------------------------------------- Slab
\* Slab<T>: a length field and a GenericSparseArena<T, (), NoGeneration,
\* usize>, addressed by usize keys. A slab value: [len, arena]
Slab_new == [len |-> 0, arena |-> Sparse_new]

Slab_len(S) == S.len

Slab_is_empty(S) == S.len = 0

\* a closure that panics instead of returning a value
PanicFn == [const |-> TRUE, c |-> Uninit]

\* insert: self.len += 1, then arena.insert
Slab_insert(S, value) ==
    LET r == Sparse_insert("none", S.arena, value)
    IN  [slab |-> [len |-> S.len + 1, arena |-> r.arena],
         key |-> UsizeKey(to_index(r.key))]

\* insert_with: self.len += 1, then arena.insert_with, which reserves the
\* vacant slot, calls the closure with its key and fills the slot; a panic of
\* the closure unwinds out of the call with the slot reserved and unfilled
Slab_insert_with(S, f) ==
    LET vs == Sparse_vacant_slot(S.arena)
        key == UsizeKey(to_index(VacantSlot_key("none", vs)))
    IN  IF f = PanicFn
        THEN [slab |-> [len |-> S.len + 1, arena |-> vs.arena],
              key |-> key, panic |-> TRUE]
        ELSE [slab |-> [len |-> S.len + 1,
                        arena |-> VacantSlot_insert("none", vs, Apply(f, key))],
              key |-> key, panic |-> FALSE]

\* vacant_slot: the arena's vacant slot and a borrow of the length
Slab_vacant_slot(S) == [len |-> S.len, slot |-> Sparse_vacant_slot(S.arena)]

Slab_VacantSlot_key(vs) == UsizeKey(to_index(VacantSlot_key("none", vs.slot)))

\* VacantSlot::insert: slot.insert(value), then *self.len += 1
Slab_VacantSlot_insert(vs, value) ==
    [len |-> vs.len + 1, arena |-> VacantSlot_insert("none", vs.slot, value)]

\* try_remove: self.len -= value.is_some() as usize
Slab_try_remove(S, key) ==
    LET r == Sparse_try_remove("none", S.arena, key)
    IN  [slab |-> [len |-> S.len - (IF r.res = None THEN 0 ELSE 1), arena |-> r.arena],
         res |-> r.res]

\* remove: arena.remove panics before the length is touched
Slab_remove(S, key) ==
    LET r == Sparse_remove("none", S.arena, key)
    IN  IF r.panic THEN [slab |-> S, res |-> None, panic |-> TRUE]
        ELSE [slab |-> [len |-> S.len - 1, arena |-> r.arena],
              res |-> r.res, panic |-> FALSE]

\* ------------------------------------------------------- the state machine
Policies == {"saturating", "wrapping", "none", "g8"}

Kinds == {"sparse", "dense"}

Values == 0..(NumValues - 1)

\* the arena values the variables hold
SparseArena == [free_list_head |-> free_list_head, slots |-> slots]

Tracker == [keys |-> keys, index |-> SparseArena]

DenseArena == [values |-> values, tracker |-> Tracker]

\* dropping the arena drops its slot array, slot by slot: the sequence of
\* values dropped, each with the slot it was dropped from
Sparse_drop(p, A) ==
    LET cells == [i \in 1..Len(A.slots) |-> [at |-> i - 1, slot |-> A.slots[i]]]
        Drops(c) == Slot_drop(p, c.slot)
        sel == SelectSeq(cells, Drops)
    IN  [j \in 1..Len(sel) |-> [at |-> sel[j].at, value |-> sel[j].slot.value]]

\* dropping the dense arena drops the values vector, element by element; the
\* tracker holds positions and indices only, which have no drop glue
Dense_drop(p, D) ==
    [j \in 1..Len(D.values) |-> [at |-> j - 1, value |-> D.values[j]]]

Arena_drop(k, p, A) ==
    IF k = "sparse" THEN Sparse_drop(p, A) ELSE Dense_drop(p, A)

\* how often the drop sequence d drops the cell r
DropsOf(d, r) == Cardinality({j \in DOMAIN d : d[j].at = r})

\* the arena under test
Cur == IF kind = "sparse" THEN SparseArena ELSE DenseArena

\* the reference map of the differential test: map.insert(key, x)
MapInsert(m, key, v) ==
    [k \in DOMAIN m \cup {key} |-> IF k = key THEN v ELSE m[k]]

\* map.remove(&key)
MapRemove(m, key) == [k \in DOMAIN m \ {key} |-> m[k]]

\* *val = new_val for a key of the map
MapWrite(m, key, v) == IF key \in DOMAIN m THEN [m EXCEPT ![key] = v] ELSE m

\* new(): no slot, free_list_head 0, empty reverse and value arrays
InitPolicy(p) ==
    /\ kind \in Kinds
    /\ G = p
    /\ free_list_head = 0
    /\ slots = <<>>
    /\ keys = <<>>
    /\ values = <<>>
    /\ map = [k \in {} |-> 0]
    /\ dead_keys = {}
    /\ count = 0
    /\ slab_len = 0

Init == InitPolicy("saturating")

SetArena(A) ==
    IF kind = "sparse"
    THEN /\ free_list_head' = A.free_list_head
         /\ slots' = A.slots
         /\ UNCHANGED <<keys, values>>
    ELSE /\ free_list_head' = A.tracker.index.free_list_head
         /\ slots' = A.tracker.index.slots
         /\ keys' = A.tracker.keys
         /\ values' = A.values

\* the bookkeeping of the differential test after an insert
Inserted(key, v) ==
    /\ map' = MapInsert(map, key, v)
    /\ count' = count + 1
    /\ UNCHANGED dead_keys

\* the policies under which the test keeps the keys it has removed: not the
\* wrapping ones, which mint a removed key again
KeepsDeadKeys(p) == p # "wrapping"

\* ... and after a removal that returned a value
Removed(key) ==
    /\ map' = MapRemove(map, key)
    /\ dead_keys' = IF KeepsDeadKeys(G) THEN dead_keys \cup {key} ELSE dead_keys
    /\ count' = count - 1

\* A call that returns None or panics, and every read, leaves all variables
\* as they are; what a call returns is the value of its operator in the
\* state it is made in.

Insert(v) ==
    /\ LET r == Arena_insert(kind, G, Cur, v)
       IN  IF r.panic
           THEN UNCHANGED <<arena_vars, map, dead_keys, count>>
           ELSE /\ Len(Arena_slots(kind, r.arena)) <= MaxSlots
                /\ SetArena(r.arena)
                /\ Inserted(r.key, v)
    /\ UNCHANGED <<kind, G, slab_len>>

\* the reference map takes the closure's value at the key that is returned
InsertWith(c) ==
    /\ LET r == Arena_insert_with(kind, G, Cur, KeyFn(c))
       IN  IF r.panic
           THEN UNCHANGED <<arena_vars, map, dead_keys, count>>
           ELSE /\ Len(Arena_slots(kind, r.arena)) <= MaxSlots
                /\ SetArena(r.arena)
                /\ Inserted(r.key, Apply(KeyFn(c), r.key))
    /\ UNCHANGED <<kind, G, slab_len>>

Get(key) ==
    /\ Arena_get(kind, G, Cur, key) \in {None} \cup {Some(v) : v \in Values \cup {Uninit}}
    /\ UNCHANGED vars

GetMut(key) ==
    /\ Arena_get_mut(kind, G, Cur, key) \in {None} \cup {Some(v) : v \in Values \cup {Uninit}}
    /\ UNCHANGED vars

TryRemove(key) ==
    /\ LET r == Arena_try_remove(kind, G, Cur, key)
       IN  IF r.res = None
           THEN UNCHANGED <<arena_vars, map, dead_keys, count>>
           ELSE /\ SetArena(r.arena)
                /\ Removed(key)
    /\ UNCHANGED <<kind, G, slab_len>>

Remove(key) ==
    /\ LET r == Arena_remove(kind, G, Cur, key)
       IN  IF r.panic
           THEN UNCHANGED <<arena_vars, map, dead_keys, count>>
           ELSE /\ SetArena(r.arena)
                /\ Removed(key)
    /\ UNCHANGED <<kind, G, slab_len>>

Index(key) ==
    /\ Arena_index(kind, G, Cur, key).panic \in BOOLEAN
    /\ UNCHANGED vars

IndexMut(key) ==
    /\ IF Arena_index(kind, G, Cur, key).panic
       THEN UNCHANGED <<arena_vars, map>>
       ELSE \E v \in Values :
               LET r == Arena_index_mut(kind, G, Cur, key, v)
               IN  /\ SetArena(r.arena)
                   /\ map' = IF r.ub THEN map ELSE MapWrite(map, key, v)
    /\ UNCHANGED <<kind, G, slab_len, dead_keys, count>>

Next ==
    \/ \E v \in Values : Insert(v)
    \/ \E c \in Values : InsertWith(c)
    \/ \E key \in KeysOf(G) : Get(key)
    \/ \E key \in KeysOf(G) : GetMut(key)
    \/ \E key \in KeysOf(G) : TryRemove(key)
    \/ \E key \in KeysOf(G) : Remove(key)
    \/ \E key \in KeysOf(G) : Index(key)
    \/ \E key \in KeysOf(G) : IndexMut(key)

Spec == Init /\ [][Next]_vars

\* the same operations under the policies that give up ABA protection
InitRelaxed == \E p \in {"wrapping", "none"} : InitPolicy(p)

SpecRelaxed == InitRelaxed /\ [][Next]_vars

\* ... and under every policy of GenBits bits
InitAll == \E p \in {"saturating", "wrapping", "none"} : InitPolicy(p)

SpecAll == InitAll /\ [][Next]_vars

\* the saturating policy driven as the differential test drives it: every
\* call is made on a key the test holds, one in its map or one it has removed
NextHandedOut ==
    \/ \E v \in Values : Insert(v)
    \/ \E c \in Values : InsertWith(c)
    \/ \E key \in DOMAIN map \cup dead_keys : Get(key)
    \/ \E key \in DOMAIN map \cup dead_keys : GetMut(key)
    \/ \E key \in DOMAIN map \cup dead_keys : TryRemove(key)
    \/ \E key \in DOMAIN map \cup dead_keys : Remove(key)
    \/ \E key \in DOMAIN map \cup dead_keys : Index(key)
    \/ \E key \in DOMAIN map \cup dead_keys : IndexMut(key)

SpecHandedOut == Init /\ [][NextHandedOut]_vars

\* vacant_slot() whose VacantSlot is dropped unfilled: the slot it reserved
\* stays in the array, empty, at the head of the free list
VacantSlotDropped ==
    /\ LET A == IF kind = "sparse"
                THEN Sparse_vacant_slot(SparseArena).arena
                ELSE [DenseArena EXCEPT !.tracker.index =
                          Tracker_vacant_slot(Tracker, Len(values)).sparse.arena]
       IN  /\ Len(Arena_slots(kind, A)) <= MaxSlots
           /\ SetArena(A)
    /\ UNCHANGED <<kind, G, slab_len, map, dead_keys, count>>

\* the keys the test presents: those in its map and those it has removed
HandedOut == DOMAIN map \cup dead_keys

NextVacant ==
    \/ \E v \in Values : Insert(v)
    \/ \E c \in Values : InsertWith(c)
    \/ \E key \in HandedOut : Get(key)
    \/ \E key \in HandedOut : GetMut(key)
    \/ \E key \in HandedOut : TryRemove(key)
    \/ \E key \in HandedOut : Remove(key)
    \/ \E key \in HandedOut : Index(key)
    \/ \E key \in HandedOut : IndexMut(key)
    \/ VacantSlotDropped

\* the policies with an exhaustible and with no counter
InitVacant == \E p \in {"saturating", "none"} : InitPolicy(p)

SpecVacant == InitVacant /\ [][NextVacant]_vars

\* GenericSparseArena<usize, (), G, u8>: a caller that fills the arena with a
\* running count, through insert and insert_with, and removes the key of the
\* last slot, keeping no record of the keys it removed. The build (with or
\* without debug assertions) is chosen per call. A run is followed up to a
\* call that is undefined behaviour.
NarrowCap == 2 ^ U8Bits + 2

InitNarrow == InitPolicy("none") /\ kind = "sparse"

NarrowInsert ==
    /\ LET r == Ix_Sparse_insert("u8", G, SparseArena, count % NumValues)
       IN  /\ ~r.ub
           /\ IF r.panic
              THEN UNCHANGED <<arena_vars, map, dead_keys, count>>
              ELSE /\ Len(r.arena.slots) <= NarrowCap
                   /\ SetArena(r.arena)
                   /\ Inserted(r.key, count % NumValues)
    /\ UNCHANGED <<kind, G, slab_len>>

NarrowInsertWith ==
    /\ LET r == Ix_Sparse_insert_with("u8", G, SparseArena, ConstFn(count % NumValues))
       IN  /\ ~r.ub
           /\ IF r.panic
              THEN UNCHANGED <<arena_vars, map, dead_keys, count>>
              ELSE /\ Len(r.arena.slots) <= NarrowCap
                   /\ SetArena(r.arena)
                   /\ Inserted(r.key, count % NumValues)
    /\ UNCHANGED <<kind, G, slab_len>>

\* a removal that panics on the debug assertion of from_usize_unchecked has
\* moved the head already and returns nothing
NarrowRemove(debug) ==
    /\ \E key \in DOMAIN map :
           /\ to_index(key) = Len(slots) - 1
           /\ LET r == Ix_Sparse_remove("u8", debug, G, SparseArena, key)
              IN  /\ SetArena(r.arena)
                  /\ map' = IF r.panic THEN map ELSE MapRemove(map, key)
                  /\ count' = IF r.panic THEN count ELSE count - 1
    /\ UNCHANGED <<kind, G, slab_len, dead_keys>>

NextNarrow ==
    \/ NarrowInsert
    \/ NarrowInsertWith
    \/ \E debug \in BOOLEAN : NarrowRemove(debug)

SpecNarrow == InitNarrow /\ [][NextNarrow]_vars

\* a Slab driven through its whole interface, with closures that return and
\* a closure that panics (the caller catches the unwind and goes on); the
\* reference map is keyed by the usize keys
Slab == [len |-> slab_len, arena |-> SparseArena]

InitSlab == InitPolicy("none") /\ kind = "sparse"

\* a call is taken while the slab keeps to MaxSlots + 1 slots and its length
\* field to one more than that
SetSlab(S) ==
    /\ Len(S.arena.slots) <= MaxSlots + 1
    /\ S.len <= MaxSlots + 2
    /\ slab_len' = S.len
    /\ free_list_head' = S.arena.free_list_head
    /\ slots' = S.arena.slots
    /\ UNCHANGED <<kind, G, keys, values, dead_keys>>

SlabInsert(v) ==
    LET r == Slab_insert(Slab, v)
    IN  SetSlab(r.slab) /\ map' = MapInsert(map, r.key, v) /\ count' = count + 1

SlabInsertWith(f) ==
    LET r == Slab_insert_with(Slab, f)
    IN  /\ SetSlab(r.slab)
        /\ map' = IF r.panic THEN map ELSE MapInsert(map, r.key, Apply(f, r.key))
        /\ count' = IF r.panic THEN count ELSE count + 1

SlabVacantInsert(v) ==
    LET vs == Slab_vacant_slot(Slab)
    IN  /\ SetSlab(Slab_VacantSlot_insert(vs, v))
        /\ map' = MapInsert(map, Slab_VacantSlot_key(vs), v)
        /\ count' = count + 1

\* a VacantSlot dropped without insert: it has no Drop, the length it
\* borrowed is not written
SlabVacantDropped ==
    LET vs == Slab_vacant_slot(Slab)
    IN  SetSlab([len |-> vs.len, arena |-> vs.slot.arena]) /\ UNCHANGED <<map, count>>

SlabTryRemove(key) ==
    LET r == Slab_try_remove(Slab, key)
    IN  /\ SetSlab(r.slab)
        /\ map' = IF r.res = None THEN map ELSE MapRemove(map, key)
        /\ count' = IF r.res = None THEN count ELSE count - 1

SlabRemove(key) ==
    LET r == Slab_remove(Slab, key)
    IN  /\ SetSlab(r.slab)
        /\ map' = IF r.panic THEN map ELSE MapRemove(map, key)
        /\ count' = IF r.panic THEN count ELSE count - 1

NextSlab ==
    \/ \E v \in Values : SlabInsert(v)
    \/ \E f \in {KeyFn(c) : c \in Values} \cup {PanicFn} : SlabInsertWith(f)
    \/ \E v \in Values : SlabVacantInsert(v)
    \/ SlabVacantDropped
    \/ \E i \in 0..(MaxSlots + 1) : SlabTryRemove(UsizeKey(i))
    \/ \E i \in 0..(MaxSlots + 1) : SlabRemove(UsizeKey(i))

SpecSlab == InitSlab /\ [][NextSlab]_vars

\* tests::basic: one value at a time is inserted and removed; the test runs
\* it with g8, here every policy is driven this way
InitBasic == \E p \in Policies : InitPolicy(p)

BasicInsert(v) == DOMAIN map = {} /\ Insert(v)

BasicRemove == \E key \in DOMAIN map : Remove(key)

NextBasic ==
    \/ \E v \in Values : BasicInsert(v)
    \/ BasicRemove

SpecBasic == InitBasic /\ [][NextBasic]_vars

\* ------------------------------------------------------------ properties
\* C1 (ABA safety, saturating policy): once a removal of key k has succeeded,
\* get(k), get_mut(k) and try_remove(k) return None in every later state of
\* the sparse and of the dense arena, whatever was inserted or removed since.
C1_ABASafety ==
    \A key \in dead_keys :
        /\ Arena_get(kind, G, Cur, key) = None
        /\ Arena_get_mut(kind, G, Cur, key) = None
        /\ Arena_try_remove(kind, G, Cur, key).res = None

\* a removed key whose slot is filled again, and a removed key whose slot
\* is retired
C1_Witness ==
    /\ \E key \in dead_keys :
          /\ key.index < Len(slots)
          /\ is_filled(G, At(slots, key.index).generation)
    /\ \E key \in dead_keys :
          /\ key.index < Len(slots)
          /\ key.generation = GenMax
          /\ At(slots, key.index).generation = EMPTY

\* C2 (map refinement): get and index of a key of the reference map yield the
\* value the map holds for it (the one last inserted or written), a write
\* through index_mut is what the next read yields, and remove returns the
\* map's value and leaves the key absent.
C2_MapRefinement ==
    \A key \in DOMAIN map :
        /\ Arena_get(kind, G, Cur, key) = Some(map[key])
        /\ Arena_get_mut(kind, G, Cur, key) = Some(map[key])
        /\ Arena_index(kind, G, Cur, key) = [res |-> Some(map[key]), panic |-> FALSE]
        /\ \A v \in Values :
              LET w == Arena_index_mut(kind, G, Cur, key, v)
              IN  /\ ~w.panic
                  /\ ~w.ub
                  /\ Arena_get(kind, G, w.arena, key) = Some(v)
        /\ LET r == Arena_remove(kind, G, Cur, key)
           IN  /\ ~r.panic
               /\ ~r.ub
               /\ r.res = Some(map[key])
               /\ Arena_get(kind, G, r.arena, key) = None
        /\ LET t == Arena_try_remove(kind, G, Cur, key)
           IN  /\ ~t.ub
               /\ t.res = Some(map[key])
               /\ Arena_get(kind, G, t.arena, key) = None

\* two keys with different values in a dense arena whose first position
\* does not hold the first slot's value, after a removal
C2_Witness ==
    /\ kind = "dense"
    /\ dead_keys # {}
    /\ Len(keys) = 2
    /\ At(keys, 0) # 0
    /\ At(values, 0) # At(values, 1)

\* C3 (key uniqueness, saturating policy): the key the next insert or
\* insert_with returns differs from every key returned before, live or
\* removed.
C3_KeyUniqueness ==
    /\ \A v \in Values :
          LET r == Arena_insert(kind, G, Cur, v)
          IN  ~r.panic /\ r.key \notin (DOMAIN map \cup dead_keys)
    /\ \A c \in Values :
          LET r == Arena_insert_with(kind, G, Cur, KeyFn(c))
          IN  ~r.panic /\ r.key \notin (DOMAIN map \cup dead_keys)

\* the next insert reuses the index of a removed key while another key is
\* live
C3_Witness ==
    /\ free_list_head < Len(slots)
    /\ \E key \in dead_keys : key.index = free_list_head
    /\ DOMAIN map # {}

\* C4 (no aliasing): two distinct keys that are live together resolve to
\* different storage cells, slot indices in the sparse arena and positions
\* of the value array in the dense one.
C4_NoAliasing ==
    LET live == {k \in AllKeys : Arena_get_ref(kind, G, Cur, k) # None}
    IN  \A k1, k2 \in live :
            k1 # k2 => Arena_get_ref(kind, G, Cur, k1) # Arena_get_ref(kind, G, Cur, k2)

\* two live keys, one of them in a slot that an earlier key has left
C4_Witness ==
    \E k1, k2 \in DOMAIN map :
        /\ k1 # k2
        /\ Arena_get_ref(kind, G, Cur, k1) # None
        /\ Arena_get_ref(kind, G, Cur, k2) # None
        /\ \E d \in dead_keys : d.index = k1.index

\* C5 (insert / get round trip): get of the key insert(v) returns yields v;
\* insert_with(f) hands f the key it returns, and get of that key yields
\* f(key).
C5_InsertGetRoundTrip ==
    /\ \A v \in Values :
          LET r == Arena_insert(kind, G, Cur, v)
          IN  /\ ~r.panic
              /\ Arena_get(kind, G, r.arena, r.key) = Some(v)
    /\ \A c \in Values :
          LET r == Arena_insert_with(kind, G, Cur, KeyFn(c))
          IN  /\ ~r.panic
              /\ r.arg = r.key
              /\ Arena_get(kind, G, r.arena, r.key) = Some(Apply(KeyFn(c), r.key))

\* an insert into a dense arena that takes a slot off the free list and
\* writes behind a value that is already stored
C5_Witness ==
    /\ kind = "dense"
    /\ free_list_head < Len(slots)
    /\ At(slots, free_list_head).generation # EMPTY
    /\ Len(values) >= 1

\* C6 (try_remove with a stale key): try_remove of a key whose index is in
\* bounds but whose snapshot does not match the slot's generation returns
\* None, as often as it is called, and leaves slots, generations, free-list
\* head, reverse array and value array as they were.
C6_TryRemoveStaleNoOp ==
    \A key \in AllKeys :
        (/\ key.index < Len(slots)
         /\ ~matches_generation(G, key, At(slots, key.index).generation))
        => LET r == Arena_try_remove(kind, G, Cur, key)
               again == Arena_try_remove(kind, G, r.arena, key)
           IN  /\ r.res = None
               /\ ~r.ub
               /\ r.arena = Cur
               /\ again.res = None
               /\ again.arena = Cur

\* a removed key whose slot holds a later value, in a dense arena
C6_Witness ==
    /\ kind = "dense"
    /\ \E key \in dead_keys :
          /\ key.index < Len(slots)
          /\ is_filled(G, At(slots, key.index).generation)
          /\ ~matches_generation(G, key, At(slots, key.index).generation)

\* C7 (out-of-bounds keys): get, get_mut and try_remove of a key whose index
\* is at or past the length of the slot array return None and change
\* nothing.
C7_OutOfBoundsKeys ==
    \A key \in AllKeys :
        key.index >= Len(Arena_slots(kind, Cur))
        => /\ Arena_get(kind, G, Cur, key) = None
           /\ Arena_get_mut(kind, G, Cur, key) = None
           /\ Arena_get_ref(kind, G, Cur, key) = None
           /\ LET r == Arena_try_remove(kind, G, Cur, key)
              IN  r.res = None /\ ~r.ub /\ r.arena = Cur

\* a key one past the last slot that carries the last slot's generation
C7_Witness ==
    /\ Len(slots) >= 1
    /\ \E key \in AllKeys :
          /\ key.index = Len(slots)
          /\ key.generation = At(slots, Len(slots) - 1).generation

\* C8 (panicking accessors): remove, index and index_mut panic exactly when
\* get of the same key returns None, and the arena is unchanged when they do.
C8_PanickingAccessors ==
    \A key \in AllKeys :
        LET absent == Arena_get(kind, G, Cur, key) = None
            r == Arena_remove(kind, G, Cur, key)
        IN  /\ r.panic <=> absent
            /\ r.panic => r.arena = Cur
            /\ ~r.ub
            /\ Arena_index(kind, G, Cur, key).panic <=> absent
            /\ \A v \in Values :
                  LET w == Arena_index_mut(kind, G, Cur, key, v)
                  IN  /\ w.panic <=> absent
                      /\ w.panic => w.arena = Cur
                      /\ ~w.ub

\* a live key next to a removed key of a filled slot and an empty slot
C8_Witness ==
    /\ DOMAIN map # {}
    /\ \E key \in dead_keys :
          /\ key.index < Len(slots)
          /\ is_filled(G, At(slots, key.index).generation)
    /\ \E i \in 0..(Len(slots) - 1) : is_empty(G, At(slots, i).generation)

\* C9 (dense length): in the dense arena tracker().len() = values().len() =
\* the number of inserts minus the number of successful removals, and a
\* try_remove that fails changes neither length.
C9_DenseLength ==
    kind = "dense"
    => /\ Tracker_len(DenseArena.tracker) = Len(DenseArena.values)
       /\ Len(DenseArena.values) = count
       /\ \A key \in AllKeys :
             LET r == Dense_try_remove(G, DenseArena, key)
             IN  r.res = None
                 => /\ Tracker_len(r.arena.tracker) = count
                    /\ Len(r.arena.values) = count

\* a dense arena that holds a value after two removals
C9_Witness ==
    /\ kind = "dense"
    /\ count >= 1
    /\ Cardinality(dead_keys) >= 2

\* C10 (dense values are the live values): the live keys of the dense arena
\* are the keys of the reference map; every position of values holds the
\* value of exactly one live key, and every live key resolves to exactly one
\* position of values.
C10_DenseValuesAreLiveValues ==
    kind = "dense"
    => LET live == {k \in AllKeys : Dense_get_ref(G, DenseArena, k) # None}
           pos(k) == Dense_get_ref(G, DenseArena, k)[1]
       IN  /\ live = DOMAIN map
           /\ \A k \in live : pos(k) \in 0..(Len(values) - 1)
           /\ \A i \in 0..(Len(values) - 1) :
                 /\ Cardinality({k \in live : pos(k) = i}) = 1
                 /\ \A k \in live : pos(k) = i => At(values, i) = map[k]

\* two values whose positions are in the opposite order of their slots:
\* the last value was moved into the hole of a removal
C10_Witness ==
    /\ kind = "dense"
    /\ Len(values) = 2
    /\ At(keys, 0) = 1
    /\ At(keys, 1) = 0
    /\ At(values, 0) # At(values, 1)

\* C11 (free-list LIFO): when a removal frees slot S (try_empty succeeds, the
\* slot is linked into the free list) and then a removal frees a different
\* slot T, with nothing in between, the next insert returns T's index and
\* the insert after it S's index.
C11_FreeListLIFO ==
    \A s, t \in DOMAIN map :
        (/\ s.index # t.index
         /\ try_empty(G, At(slots, s.index).generation).ok
         /\ try_empty(G, At(slots, t.index).generation).ok)
        => LET r1 == Arena_remove(kind, G, Cur, s)
               r2 == Arena_remove(kind, G, r1.arena, t)
           IN  /\ ~r1.panic /\ ~r2.panic
               /\ \A v \in Values :
                     LET i1 == Arena_insert(kind, G, r2.arena, v)
                         i2 == Arena_insert(kind, G, i1.arena, v)
                         j2 == Arena_insert_with(kind, G, i1.arena, KeyFn(v))
                     IN  /\ i1.key.index = t.index
                         /\ i2.key.index = s.index
                         /\ j2.key.index = s.index

\* two live values with different contents in different slots of a dense
\* arena, neither slot exhausted
C11_Witness ==
    /\ kind = "dense"
    /\ Len(values) = 2
    /\ At(values, 0) # At(values, 1)
    /\ \E s, t \in DOMAIN map :
          /\ s.index < t.index
          /\ try_empty(G, At(slots, s.index).generation).ok
          /\ try_empty(G, At(slots, t.index).generation).ok

\* C12 (saturating exhaustion point, as tested): when one value at a time
\* is inserted and removed under a saturating policy of w bits, starting at
\* a fresh slot, the first 2^(w-1) inserts return that slot's index and the
\* insert after the 2^(w-1)-th removal returns another index: a slot is
\* filled exactly 2^(w-1) times, 128 times for g8.
C12_SaturatingExhaustionPoint ==
    G \in {"saturating", "g8"}
    => LET N == 2 ^ (Bits(G) - 1)
           issued == DOMAIN map \cup dead_keys
           fills(i) == Cardinality({k \in issued : k.index = i})
       IN  /\ G = "g8" => N = 128
           /\ \A i \in 0..(Len(slots) - 1) : fills(i) <= N
           /\ \A i \in 0..(Len(slots) - 2) : fills(i) = N
           /\ DOMAIN map = {}
              => \A v \in Values :
                     LET r == Arena_insert(kind, G, Cur, v)
                     IN  /\ ~r.panic
                         /\ r.key.index = Cardinality(dead_keys) \div N
                         /\ Cardinality(dead_keys) < N => r.key.index = 0
                         /\ Cardinality(dead_keys) = N => r.key.index # 0

\* the dense g8 arena right after the 128th removal from slot 0
C12_Witness ==
    /\ G = "g8"
    /\ kind = "dense"
    /\ DOMAIN map = {}
    /\ Len(slots) = 1
    /\ Cardinality(dead_keys) = 128

\* C13 as the specification words it: in insert-then-remove cycles on slot 0
\* of a fresh g8 arena the 127th cycle's try_empty fails, that removal
\* retires slot 0 and the next insert lands on another index.
C13_Exhausted127th ==
    \A key \in DOMAIN map :
        (/\ G = "g8"
         /\ key.index = 0
         /\ Cardinality(dead_keys) = 126)
        => LET r == Arena_remove(kind, G, Cur, key)
           IN  /\ ~try_empty(G, At(slots, 0).generation).ok
               /\ At(Arena_slots(kind, r.arena), 0).generation = EMPTY
               /\ \A v \in Values : Arena_insert(kind, G, r.arena, v).key.index # 0

\* C13 (amended): in insert-then-remove cycles on slot 0 of a fresh g8 arena
\* try_empty succeeds in cycles 1 to 127 and fails in the 128th; that
\* removal retires slot 0 (generation EMPTY, not the free-list head), and
\* from then on no insert returns index 0.
C13_Exhausted128th ==
    G = "g8"
    => LET removed0 == Cardinality({k \in dead_keys : k.index = 0})
       IN  /\ \A key \in DOMAIN map :
                 key.index = 0
                 => LET r == Arena_remove(kind, G, Cur, key)
                        rslots == Arena_slots(kind, r.arena)
                        rhead == IF kind = "sparse" THEN r.arena.free_list_head
                                 ELSE r.arena.tracker.index.free_list_head
                    IN  /\ ~r.panic
                        /\ try_empty(G, At(slots, 0).generation).ok <=> removed0 + 1 < 128
                        /\ removed0 + 1 < 128
                           => /\ rhead = 0
                              /\ \A v \in Values :
                                    Arena_insert(kind, G, r.arena, v).key.index = 0
                        /\ removed0 + 1 = 128
                           => /\ At(rslots, 0).generation = EMPTY
                              /\ rhead # 0
                              /\ \A v \in Values :
                                    Arena_insert(kind, G, r.arena, v).key.index # 0
           /\ removed0 = 128
              => /\ At(slots, 0).generation = EMPTY
                 /\ free_list_head # 0
                 /\ \A key \in DOMAIN map : key.index # 0
                 /\ \A v \in Values : Arena_insert(kind, G, Cur, v).key.index # 0

\* the 128th value is in slot 0 of the g8 arena: 127 removals are behind it
C13_Witness ==
    /\ G = "g8"
    /\ Cardinality(dead_keys) = 127
    /\ \E key \in DOMAIN map : key.index = 0 /\ key.generation = 255

\* C14 (retirement is terminal): once a removal at slot i has failed
\* try_empty (the removed key carried the last generation), slot i has
\* generation EMPTY, is not the free-list head, is not on the free list, holds
\* no live key, and no insert returns a key with index i.
C14_RetirementTerminal ==
    \A d \in dead_keys :
        ~try_empty(G, d.generation).ok
        => /\ At(slots, d.index).generation = EMPTY
           /\ free_list_head # d.index
           /\ d.index \notin FreeList(SparseArena)
           /\ \A key \in DOMAIN map : key.index # d.index
           /\ \A v \in Values :
                 /\ Arena_insert(kind, G, Cur, v).key.index # d.index
                 /\ Arena_insert_with(kind, G, Cur, KeyFn(v)).key.index # d.index

\* a retired slot next to a slot that was freed after the retirement and is
\* the free-list head
C14_Witness ==
    \E d \in dead_keys :
        /\ ~try_empty(G, d.generation).ok
        /\ d.index = 0
        /\ free_list_head = 1
        /\ Len(slots) = 2
        /\ At(slots, 1).generation = 2

\* C15 (wrapping and no-protection policies never retire): under a wrapping
\* policy and under NoGeneration try_empty succeeds on every filled
\* generation; every successful removal makes the slot the head of the free
\* list, the next insert reuses it, and in no reachable state is there an
\* empty slot off the free list.
C15_NeverRetires ==
    /\ \A g \in 0..MAX(G) : is_filled(G, g) => try_empty(G, g).ok
    /\ \A i \in 0..(Len(slots) - 1) :
          is_empty(G, At(slots, i).generation) => i \in FreeList(SparseArena)
    /\ \A key \in KeysOf(G) :
          LET r == Arena_try_remove(kind, G, Cur, key)
              q == Arena_remove(kind, G, Cur, key)
          IN  r.res # None
              => /\ ~q.panic /\ q.arena = r.arena
                 /\ Arena_sparse(kind, r.arena).free_list_head = key.index
                 /\ key.index \in FreeList(Arena_sparse(kind, r.arena))
                 /\ \A v \in Values :
                       Arena_insert(kind, G, r.arena, v).key.index = key.index

\* a wrapping arena with a live value and, at the head of the free list, a
\* slot whose generation has wrapped around to EMPTY
C15_Witness ==
    /\ G = "wrapping"
    /\ DOMAIN map # {}
    /\ free_list_head < Len(slots)
    /\ At(slots, free_list_head).generation = EMPTY

\* a key removed from its slot is rejected for n - 1 refills of the slot
\* and while the slot is empty in between, and accepted at the n-th refill;
\* A is the arena with the slot empty, each refill inserts v
RECURSIVE RejectedUntil(_, _, _, _, _, _)
RejectedUntil(k, p, A, key, v, n) ==
    LET i == Arena_insert(k, p, A, v)
    IN  /\ ~i.panic
        /\ i.key.index = key.index
        /\ Arena_get(k, p, A, key) = None
        /\ IF n <= 1
           THEN /\ i.key = key
                /\ Arena_get(k, p, i.arena, key) = Some(v)
           ELSE /\ i.key # key
                /\ Arena_get(k, p, i.arena, key) = None
                /\ RejectedUntil(k, p, Arena_remove(k, p, i.arena, i.key).arena, key, v, n - 1)

\* C16 (wrapping collision distance): under the wrapping policy of w bits a
\* key removed from slot S gets None from get while S is empty and during
\* the next 2^(w-1) - 1 occupancies of S; the 2^(w-1)-th refill of S is the
\* first at which get accepts it again, and it then yields the new value.
C16_WrappingCollisionDistance ==
    G = "wrapping"
    => \A key \in DOMAIN map :
          LET r == Arena_remove(kind, G, Cur, key)
              v == (map[key] + 1) % NumValues
          IN  /\ ~r.panic
              /\ RejectedUntil(kind, G, r.arena, key, v, 2 ^ (Bits(G) - 1))

\* a wrapping dense arena with two values, one under a key of the last
\* generation: its slot's counter passes through 0 before the key is minted
\* again
C16_Witness ==
    /\ G = "wrapping"
    /\ kind = "dense"
    /\ Len(values) = 2
    /\ \E key \in DOMAIN map : key.generation = MAX(G)

\* C17 (no protection detects only emptiness): a key without a usable
\* snapshot, an ArenaKey under NoGeneration or a plain usize under any
\* policy, is absent after its removal for as long as its slot is empty, and
\* resolves to the new value as soon as an insert refills the slot.
C17_DetectsOnlyEmptiness ==
    LET unprotected == {UsizeKey(i) : i \in 0..(Len(slots) - 1)}
                       \cup (IF G = "none" THEN dead_keys \cup DOMAIN map ELSE {})
    IN  \A key \in unprotected :
            LET occ == Sparse_try_key_of(G, SparseArena, key.index)
            IN  IF occ = None
                THEN /\ Arena_get(kind, G, Cur, key) = None
                     /\ Arena_try_remove(kind, G, Cur, key).res = None
                     /\ \A v \in Values :
                           LET i == Arena_insert(kind, G, Cur, v)
                           IN  Arena_get(kind, G, i.arena, key)
                                   = IF i.key.index = key.index THEN Some(v) ELSE None
                ELSE /\ occ[1] \in DOMAIN map
                     /\ Arena_get(kind, G, Cur, key) = Some(map[occ[1]])
                     /\ LET r == Arena_try_remove(kind, G, Cur, key)
                        IN  /\ r.res = Some(map[occ[1]])
                            /\ Arena_get(kind, G, r.arena, key) = None

\* under NoGeneration, a removed key whose slot holds a later value next to
\* a removed key whose slot is empty
C17_Witness ==
    /\ G = "none"
    /\ \E d \in dead_keys : d \in DOMAIN map
    /\ \E d \in dead_keys :
          /\ d.index < Len(slots)
          /\ is_empty(G, At(slots, d.index).generation)

\* C18 (generation laws): under every policy EMPTY is empty, and every
\* generation a slot goes through is exactly one of empty and filled, fills
\* to a filled generation when empty, and empties, when try_empty succeeds,
\* to an empty generation.
C18_GenerationLaws ==
    /\ is_empty(G, EMPTY)
    /\ \A i \in 0..(Len(slots) - 1) :
          LET g == At(slots, i).generation
          IN  /\ is_empty(G, g) # is_filled(G, g)
              /\ is_empty(G, g)
                    => /\ is_filled(G, fill(G, g))
                       /\ ~is_empty(G, fill(G, g))
              /\ is_filled(G, g)
                    => LET e == try_empty(G, g)
                       IN  e.ok => /\ is_empty(G, e.generation)
                                   /\ ~is_filled(G, e.generation)

\* the last generation of g8 is in a slot: try_empty fails on it, and every
\* generation below it has been walked through
C18_Witness ==
    /\ G = "g8"
    /\ Len(slots) > 0
    /\ At(slots, 0).generation = MAX(G)
    /\ ~try_empty(G, At(slots, 0).generation).ok

\* C19 (matches law): a generation matches a filled snapshot of its policy
\* exactly when it is filled and its own snapshot is that one; an empty
\* generation matches none, a filled one matches its own.
C19_MatchesLaw ==
    \A i \in 0..(Len(slots) - 1) :
        LET g == At(slots, i).generation
        IN  /\ \A f \in FilledOf(G) :
                  matches(G, g, f) <=> (is_filled(G, g) /\ to_filled(G, g) = f)
            /\ is_empty(G, g) => \A f \in FilledOf(G) : ~matches(G, g, f)
            /\ is_filled(G, g) => /\ to_filled(G, g) \in FilledOf(G)
                                  /\ matches(G, g, to_filled(G, g))

\* a g8 slot filled for the second time or later: the live key's snapshot
\* matches, the snapshots of the removed keys do not
C19_Witness ==
    /\ G = "g8"
    /\ dead_keys # {}
    /\ \E key \in DOMAIN map :
          /\ matches(G, At(slots, key.index).generation, key.generation)
          /\ \A d \in dead_keys :
                ~matches(G, At(slots, key.index).generation, d.generation)

\* C20 (exactly-once ownership): a live value is returned by the one
\* remove/try_remove that takes its key, after which the key returns nothing
\* and the arena no longer drops it; dropping the arena drops each live value
\* exactly once and nothing else: no removed value, no empty or retired slot.
C20_ExactlyOnceOwnership ==
    LET d == Arena_drop(kind, G, Cur)
    IN  /\ Len(d) = Cardinality(DOMAIN map)
        /\ \A i \in 0..(Len(slots) - 1) :
              (kind = "sparse" /\ is_empty(G, At(slots, i).generation))
                 => DropsOf(d, i) = 0
        /\ \A key \in dead_keys :
              /\ Arena_try_remove(kind, G, Cur, key).res = None
              /\ Arena_remove(kind, G, Cur, key).panic
        /\ \A key \in DOMAIN map :
              LET cell == Arena_get_ref(kind, G, Cur, key)
                  r == Arena_try_remove(kind, G, Cur, key)
                  rd == Arena_drop(kind, G, r.arena)
              IN  /\ cell # None
                  /\ DropsOf(d, cell[1]) = 1
                  /\ \A j \in DOMAIN d : d[j].at = cell[1] => d[j].value = map[key]
                  /\ r.res = Some(map[key])
                  /\ Arena_remove(kind, G, Cur, key).res = Some(map[key])
                  /\ Arena_try_remove(kind, G, r.arena, key).res = None
                  /\ Arena_remove(kind, G, r.arena, key).panic
                  /\ Len(rd) = Len(d) - 1
                  /\ \A other \in DOMAIN map \ {key} :
                        LET c2 == Arena_get_ref(kind, G, r.arena, other)
                        IN  /\ c2 # None
                            /\ DropsOf(rd, c2[1]) = 1
                            /\ \A j \in DOMAIN rd :
                                  rd[j].at = c2[1] => rd[j].value = map[other]

\* a sparse arena holding a live value next to a retired slot, whose last
\* value was returned by a remove
C20_Witness ==
    /\ kind = "sparse"
    /\ DOMAIN map # {}
    /\ \E key \in dead_keys :
          /\ key.generation = MAX(G)
          /\ key.index < Len(slots)
          /\ At(slots, key.index).generation = EMPTY
          /\ At(slots, key.index).next_empty_slot = key.index

\* C21 (VacantSlot::key predicts the inserted key): the key a sparse,
\* tracker or dense vacant slot announces is not live while the slot is
\* vacant, and once that vacant slot is filled with v the key reads v (the
\* tracker: the position the slot announced).
C21_VacantKeyPredicts ==
    \A v \in Values :
        IF kind = "sparse"
        THEN LET vs == Sparse_vacant_slot(SparseArena)
                 key == VacantSlot_key(G, vs)
             IN  /\ Sparse_get(G, SparseArena, key) = None
                 /\ Sparse_get(G, vs.arena, key) = None
                 /\ Sparse_get(G, VacantSlot_insert(G, vs, v), key) = Some(v)
        ELSE LET ts == Tracker_vacant_slot(Tracker, Len(values))
                 tkey == Tracker_VacantSlot_key(G, ts)
                 ds == Dense_vacant_slot(DenseArena)
                 dkey == Dense_VacantSlot_key(G, ds)
             IN  /\ ~ts.panic
                 /\ Tracker_get(G, Tracker, tkey) = None
                 /\ Tracker_get(G, Tracker_VacantSlot_insert(G, ts), tkey)
                        = Some(Tracker_VacantSlot_position(ts))
                 /\ ~ds.slot.panic
                 /\ Dense_get(G, DenseArena, dkey) = None
                 /\ Dense_get(G, Dense_VacantSlot_insert(G, ds, v), dkey) = Some(v)

\* a dense arena whose next vacant slot is a reused one, next to a live value
C21_Witness ==
    /\ kind = "dense"
    /\ free_list_head < Len(slots)
    /\ DOMAIN map # {}
    /\ Tracker_VacantSlot_key(G, Tracker_vacant_slot(Tracker, Len(values))).generation > 1

\* C22 (unchecked variants equal checked variants): for every key that get
\* resolves, get_unchecked reads the same element, and remove_unchecked
\* returns the same value and leaves the same arena (slots, generations,
\* free-list head, reverse and value arrays) as remove; the tracker's
\* remove_unchecked agrees with its remove in the same way.
C22_UncheckedEqualsChecked ==
    \A key \in KeysOf(G) \cup {UsizeKey(i) : i \in 0..MaxSlots} :
        Arena_get(kind, G, Cur, key) # None
           => LET g == Arena_get_unchecked(kind, Cur, key)
                  u == Arena_remove_unchecked(kind, G, Cur, key)
                  r == Arena_remove(kind, G, Cur, key)
              IN  /\ ~g.ub
                  /\ Some(g.res) = Arena_get(kind, G, Cur, key)
                  /\ ~u.ub
                  /\ ~r.panic
                  /\ Some(u.res) = r.res
                  /\ u.arena = r.arena
                  /\ kind = "dense"
                        => LET tu == Tracker_remove_unchecked(G, Tracker, key)
                               tr == Tracker_remove(G, Tracker, key)
                           IN  /\ ~tu.ub
                               /\ Some(tu.res) = tr.res
                               /\ tu.tracker = tr.tracker
                               /\ Some(Tracker_get_unchecked(Tracker, key).res)
                                      = Tracker_get(G, Tracker, key)

\* a dense arena with two live values, one of them at position 0, so that
\* its removal moves the other
C22_Witness ==
    /\ kind = "dense"
    /\ Len(values) = 2
    /\ \E key \in DOMAIN map :
          /\ Dense_get_ref(G, DenseArena, key) = Some(0)
          /\ Arena_get(kind, G, Cur, key) = Some(map[key])
          /\ Arena_remove_unchecked(kind, G, Cur, key).res = map[key]

\* C23 (tracker key order): keys() yields exactly len() keys, and the i-th
\* one is the live key whose position is i: get of it is Some(i) and the
\* dense arena's values()[i] is its value.
C23_TrackerKeyOrder ==
    kind = "dense"
    => LET ks == Tracker_keys(G, Tracker)
       IN  /\ Len(ks) = Tracker_len(Tracker)
           /\ {ks[i].key : i \in DOMAIN ks} = DOMAIN map
           /\ \A i \in DOMAIN ks :
                 /\ ~ks[i].ub
                 /\ Tracker_get(G, Tracker, ks[i].key) = Some(i - 1)
                 /\ ks[i].key \in DOMAIN map
                 /\ At(DenseArena.values, i - 1) = map[ks[i].key]

\* two live keys whose positions run against their slot indices, with
\* different values
C23_Witness ==
    /\ kind = "dense"
    /\ Len(keys) = 2
    /\ At(keys, 0) > At(keys, 1)
    /\ At(values, 0) # At(values, 1)
    /\ Tracker_keys(G, Tracker)[1].key.index = At(keys, 0)

\* C24 (free-list well-formedness): the head is slots.len() or the index of
\* an empty slot; the chain of next_empty_slot links from the head visits
\* only empty slots, visits none twice and ends at slots.len(); the slots on
\* it are exactly the empty slots that were not retired; a slot pushed by
\* growth links to one past the new end.
C24_FreeListWellFormed ==
    LET n == Len(slots)
        F == FreeList(SparseArena)
        link(i) == At(slots, i).next_empty_slot
        Retired(i) == /\ G = "saturating"
                      /\ \E d \in dead_keys : d.index = i /\ d.generation = MAX(G)
    IN  /\ \/ free_list_head = n
           \/ /\ free_list_head \in 0..(n - 1)
              /\ is_empty(G, At(slots, free_list_head).generation)
        /\ free_list_head = n => F = {}
        /\ \A i \in F :
              /\ is_empty(G, At(slots, i).generation)
              /\ link(i) \in F \cup {n}
              /\ link(i) # free_list_head
              /\ \A j \in F : link(i) = link(j) => i = j
        /\ F = {i \in 0..(n - 1) :
                   is_empty(G, At(slots, i).generation) /\ ~Retired(i)}
        /\ free_list_head = n
              => LET A1 == reserve_vacant_slot_slow(SparseArena)
                 IN  /\ Len(A1.slots) = n + 1
                     /\ At(A1.slots, n).next_empty_slot = Len(A1.slots)
                     /\ Sparse_vacant_slot(SparseArena).next_empty_slot = n + 1

\* a retired slot below a slot that growth pushed and nobody filled
C24_Witness ==
    /\ G = "saturating"
    /\ Len(slots) = 2
    /\ free_list_head = 1
    /\ At(slots, 1).generation = EMPTY
    /\ At(slots, 1).next_empty_slot = 2
    /\ \E d \in dead_keys : d.index = 0 /\ d.generation = MAX(G)
    /\ At(slots, 0).next_empty_slot = 0

\* C25 (dense tracker bijection): every position p below len names, through
\* keys[p], a filled forward-map slot that stores p; every filled
\* forward-map slot stores a position q below len with keys[q] naming that
\* slot; there are as many filled forward-map slots as len.
C25_TrackerBijection ==
    kind = "dense"
    => LET T == Tracker
           len == Tracker_len(T)
           filled == {f \in 0..(Len(T.index.slots) - 1) :
                         is_filled(G, At(T.index.slots, f).generation)}
       IN  /\ \A p \in 0..(len - 1) :
                 /\ At(T.keys, p) \in 0..(Len(T.index.slots) - 1)
                 /\ At(T.keys, p) \in filled
                 /\ At(T.index.slots, At(T.keys, p)).value = p
           /\ \A f \in filled :
                 LET q == At(T.index.slots, f).value
                 IN  /\ q \in 0..(len - 1)
                     /\ At(T.keys, q) = f
           /\ Cardinality(filled) = len

\* two live keys, the one in the higher slot at the lower position
C25_Witness ==
    /\ kind = "dense"
    /\ Tracker_len(Tracker) = 2
    /\ At(Tracker.keys, 0) = 1
    /\ At(Tracker.keys, 1) = 0
    /\ At(Tracker.index.slots, 1).value = 0
    /\ At(Tracker.index.slots, 0).value = 1

C27_DenseInsertPosition ==
    kind = "dense"
    => \A v \in Values :
          LET D == DenseArena
              len == Len(D.values)
              vs == Dense_vacant_slot(D)
              i == Dense_insert(G, D, v)
          IN  /\ ~i.panic
              /\ Tracker_VacantSlot_position(vs.slot) = len
              /\ Len(i.arena.values) = len + 1
              /\ At(i.arena.values, len) = v
              /\ SubSeq(i.arena.values, 1, len) = D.values
              /\ Tracker_get(G, i.arena.tracker, i.key) = Some(len)
              /\ Dense_get(G, i.arena, i.key) = Some(v)
              /\ \A other \in DOMAIN map :
                    /\ other # i.key
                    /\ Tracker_get(G, i.arena.tracker, other)
                           = Tracker_get(G, D.tracker, other)
                    /\ Dense_get(G, i.arena, other) = Some(map[other])

\* one live value in slot 1, at position 0; the next insert reuses slot 0 and
\* lands at position 1
C27_Witness ==
    /\ kind = "dense"
    /\ Len(values) = 1
    /\ At(keys, 0) = 1
    /\ free_list_head = 0
    /\ \E v \in Values :
          LET i == Dense_insert(G, DenseArena, v)
          IN  /\ v # At(values, 0)
              /\ i.key.index = 0
              /\ Tracker_get(G, i.arena.tracker, i.key) = Some(1)

\* a step stamps only filled generations above those of all keys handed out
\* for the slot so far
StampsGreater ==
    G \in {"saturating", "g8"}
    => \A i \in 0..(Len(slots') - 1) :
          LET now == At(slots', i).generation
              stamped == i >= Len(slots) \/ At(slots, i).generation # now
          IN  (stamped /\ is_filled(G, now))
                 => \A k \in dead_keys \cup DOMAIN map :
                       k.index = i => k.generation < now

\* C28 (monotone generations): under a saturating policy every step that
\* stamps a filled generation into a slot stamps one greater than every
\* filled generation stamped into that slot before, which are the
\* generations of the keys handed out for it so far.
C28_MonotoneGenerations == [][StampsGreater]_vars

\* a g8 slot filled for at least the third time
C28_Witness ==
    /\ G = "g8"
    /\ \E key \in DOMAIN map :
          /\ At(slots, key.index).generation = key.generation
          /\ Cardinality({d \in dead_keys : d.index = key.index}) >= 2
          /\ \A d \in dead_keys : d.index = key.index => d.generation < key.generation

\* what a step may do to the slots: a generation changes in one slot at
\* most, from empty to its filled successor together with an insert of a
\* key for that slot, or from filled to empty together with the removal of
\* the slot's live key (to the next generation and onto the free list, or,
\* the counter exhausted, to EMPTY and off it); the slot array never
\* shrinks; in a sparse arena an insert or removal leaves the value of every
\* other slot as it was
SlotLifecycleStep ==
    LET gen(i) == At(slots, i).generation
        gen2(i) == At(slots', i).generation
        changed == {i \in 0..(Len(slots) - 1) : gen(i) # gen2(i)}
        fresh == {i \in Len(slots)..(Len(slots') - 1) : is_filled(G, gen2(i))}
        ins == DOMAIN map' \ DOMAIN map
        del == DOMAIN map \ DOMAIN map'
    IN  /\ Len(slots') >= Len(slots)
        /\ Len(slots') <= Len(slots) + 1
        /\ Cardinality(changed \cup fresh) <= 1
        /\ \A i \in fresh :
              /\ gen2(i) = fill(G, EMPTY)
              /\ ins = {ArenaKey_new(i, to_filled(G, gen2(i)))}
        /\ \A i \in changed :
              IF is_empty(G, gen(i))
              THEN /\ gen2(i) = fill(G, gen(i))
                   /\ ins = {ArenaKey_new(i, to_filled(G, gen2(i)))}
                   /\ del = {}
              ELSE /\ is_empty(G, gen2(i))
                   /\ del = {ArenaKey_new(i, to_filled(G, gen(i)))}
                   /\ ins = {}
                   /\ IF try_empty(G, gen(i)).ok
                      THEN /\ gen2(i) = try_empty(G, gen(i)).generation
                           /\ free_list_head' = i
                           /\ At(slots', i).next_empty_slot = free_list_head
                      ELSE /\ gen2(i) = EMPTY
                           /\ free_list_head' = free_list_head
                           /\ At(slots', i).next_empty_slot = i
        /\ (ins = {} /\ del = {}) => changed \cup fresh = {}
        /\ (ins # {} \/ del # {}) => Cardinality(changed \cup fresh) = 1
        /\ (kind = "sparse" /\ (ins # {} \/ del # {}))
              => \A j \in 0..(Len(slots) - 1) :
                    j \notin changed => At(slots', j) = At(slots, j)

\* C29 (slot lifecycle and frame): a slot's generation changes only by a
\* successful insert into that slot or a successful removal from it (to
\* vacant, or to retired when try_empty fails); reads, failed removals and a
\* reserved slot dropped unfilled change no generation; an insert or removal
\* at one slot leaves the generation and value of every other slot unchanged.
C29_SlotLifecycle == [][SlotLifecycleStep]_vars

\* a sparse arena with a retired slot, a vacant slot on the free list and a
\* live value: all three slot states side by side
C29_Witness ==
    /\ kind = "sparse"
    /\ G = "saturating"
    /\ Len(slots) = 2
    /\ DOMAIN map # {}
    /\ \E i \in 0..1 :
          /\ At(slots, i).generation = EMPTY
          /\ At(slots, i).next_empty_slot = i
          /\ \E d \in dead_keys : d.index = i /\ d.generation = MAX(G)

\* C30 (sparse iteration): iter yields one (key, value) pair per filled slot
\* in ascending slot order, skipping empty and retired slots; every yielded
\* key is live and get of it is the yielded value; from the back the same
\* pairs come in descending order; keys and values yield the projections.
C30_SparseIteration ==
    LET A == SparseArena
        n == Len(A.slots)
        it == Sparse_iter(A)
        fwd == Collect("iter", G, A, it, n + 1)
        bwd == Collect("iter_back", G, A, it, n + 1)
        filled == {i \in 0..(n - 1) : is_filled(G, At(A.slots, i).generation)}
        Rev(q) == [j \in 1..Len(q) |-> q[Len(q) + 1 - j]]
    IN  /\ Len(fwd) = Cardinality(filled)
        /\ {fwd[j].key.index : j \in DOMAIN fwd} = filled
        /\ \A j \in DOMAIN fwd :
              /\ j > 1 => fwd[j - 1].key.index < fwd[j].key.index
              /\ fwd[j].key \in DOMAIN map
              /\ Sparse_get(G, A, fwd[j].key) = Some(fwd[j].value)
              /\ kind = "sparse" => fwd[j].value = map[fwd[j].key]
        /\ {fwd[j].key : j \in DOMAIN fwd} = DOMAIN map
        /\ bwd = Rev(fwd)
        /\ Collect("keys", G, A, it, n + 1) = [j \in DOMAIN fwd |-> fwd[j].key]
        /\ Collect("values", G, A, it, n + 1) = [j \in DOMAIN fwd |-> fwd[j].value]
        /\ Collect("keys_back", G, A, it, n + 1) = [j \in DOMAIN bwd |-> bwd[j].key]
        /\ Collect("values_back", G, A, it, n + 1) = [j \in DOMAIN bwd |-> bwd[j].value]

\* a sparse arena whose slot 0 is empty and whose slot 1 holds a value: the
\* iterator skips the first and yields the second, from either end
C30_Witness ==
    /\ kind = "sparse"
    /\ Len(slots) = 2
    /\ is_empty(G, At(slots, 0).generation)
    /\ is_filled(G, At(slots, 1).generation)
    /\ Len(Collect("iter", G, SparseArena, Sparse_iter(SparseArena), 3)) = 1
    /\ Iter_next_back(G, SparseArena, Sparse_iter(SparseArena)).item # None

\* C31 (try_key_of): for every raw index i, try_key_of(i) returns Some(k)
\* iff i is in bounds and slot i is filled; k then has index i and get(k)
\* returns the value slot i holds. It returns None for an empty slot, a retired
\* slot and an index out of bounds, and key_of panics in exactly those cases
\* and returns the same key otherwise.
C31_TryKeyOf ==
    LET A == Arena_sparse(kind, Cur)
    IN  \A i \in 0..(MaxSlots + 1) :
            LET t == Sparse_try_key_of(G, A, i)
                k == Sparse_key_of(G, A, i)
                filled == i < Len(A.slots) /\ is_filled(G, At(A.slots, i).generation)
            IN  /\ (t # None) <=> filled
                /\ k.panic <=> (t = None)
                /\ filled =>
                       /\ to_index(t[1]) = i
                       /\ k.key = t[1]
                       /\ Sparse_get(G, A, t[1]) = Some(At(A.slots, i).value)
                       /\ kind = "sparse" =>
                              /\ t[1] \in DOMAIN map
                              /\ Sparse_get(G, A, t[1]) = Some(map[t[1]])
                /\ (\E d \in dead_keys :
                        /\ d.index = i
                        /\ G = "saturating"
                        /\ d.generation = MAX(G)) => t = None

\* slot 0 retired, slot 1 filled, index 2 out of bounds
C31_Witness ==
    /\ kind = "sparse"
    /\ G = "saturating"
    /\ Len(slots) = 2
    /\ ArenaKey_new(0, MAX(G)) \in dead_keys
    /\ Sparse_try_key_of(G, SparseArena, 0) = None
    /\ Sparse_try_key_of(G, SparseArena, 1) # None
    /\ Sparse_key_of(G, SparseArena, 2).panic

\* C32 (sequential allocation): from new(), as long as no removal has
\* happened, the n-th insert returns a key with slot index n - 1, so the keys
\* handed out have the indices 0, 1, 2, ... and the next insert returns the
\* index equal to the number of inserts so far; every one of those keys reads
\* back its own value, also when indexed by the bare slot index.
C32_SequentialAllocation ==
    dead_keys = {} =>
        /\ Cardinality(DOMAIN map) = count
        /\ {to_index(k) : k \in DOMAIN map} = 0..(count - 1)
        /\ \A v \in Values :
               /\ to_index(Arena_insert(kind, G, Cur, v).key) = count
               /\ to_index(Arena_insert_with(kind, G, Cur, KeyFn(v)).key) = count
        /\ \A k \in DOMAIN map :
               /\ Arena_get(kind, G, Cur, k) = Some(map[k])
               /\ Arena_index(kind, G, Cur, k) = [res |-> Some(map[k]), panic |-> FALSE]
               /\ Arena_get(kind, G, Cur, UsizeKey(to_index(k))) = Some(map[k])

\* tests::test_basic of slab.rs before its removal: two inserts, indices 0
\* and 1, two different values
C32_Witness ==
    /\ dead_keys = {}
    /\ count = 2
    /\ \E ka, kb \in DOMAIN map :
           /\ to_index(ka) = 0
           /\ to_index(kb) = 1
           /\ map[ka] # map[kb]
           /\ Arena_get(kind, G, Cur, UsizeKey(0)) = Some(map[ka])
           /\ Arena_get(kind, G, Cur, UsizeKey(1)) = Some(map[kb])

\* C33 (internal index capacity): for a GenericSparseArena whose InternalIndex
\* type has the maximum M (u8: 255), every next-empty link stored in an empty
\* slot is <= M, the link a removal stores equals the untruncated index it
\* was computed from, and an insert after which a removal would compute a
\* link above M (one that leaves free_list_head above M) panics.
C33_IndexCapacity ==
    LET M == 2 ^ U8Bits - 1
        A == SparseArena
    IN  /\ \A i \in 1..Len(slots) :
               slots[i].value = Uninit => slots[i].next_empty_slot <= M
        /\ \A key \in DOMAIN map : \A debug \in BOOLEAN :
               LET r == Ix_Sparse_remove("u8", debug, G, A, key)
                   from == IF try_empty(G, At(slots, to_index(key)).generation).ok
                           THEN free_list_head ELSE to_index(key)
               IN  ~r.panic =>
                       At(r.arena.slots, to_index(key)).next_empty_slot = from
        /\ LET r == Ix_Sparse_insert("u8", G, A, count % NumValues)
           IN  (~r.panic /\ ~r.ub) => r.arena.free_list_head <= M

\* C34 (abandoned vacant slot): vacant_slot() of the sparse arena, the
\* tracker or the dense arena, dropped without insert, leaves every key
\* handed out resolving as before (the live ones to their values), leaves
\* len() of the tracker and of the dense arena unchanged, leaves a well-formed
\* free list (a chain of empty slots without repetition that ends at
\* slots.len(), the old list plus at most the slot just pushed), and the next
\* insert or insert_with returns the key the abandoned handle reported; a
\* second abandoned vacant_slot() changes nothing more.
C34_AbandonedVacantSlot ==
    LET D == Arena_vacant_slot_dropped(kind, Cur)
        reported == Arena_VacantSlot_key(kind, G, Cur)
        S == Arena_sparse(kind, D)
        n == Len(S.slots)
        F == FreeList(S)
        link(i) == At(S.slots, i).next_empty_slot
    IN  /\ \A key \in HandedOut :
               /\ Arena_get(kind, G, D, key) = Arena_get(kind, G, Cur, key)
               /\ key \in DOMAIN map => Arena_get(kind, G, D, key) = Some(map[key])
        /\ kind = "dense" =>
               /\ ~Dense_vacant_slot(DenseArena).slot.panic
               /\ Len(D.values) = Len(values)
               /\ D.values = values
               /\ Tracker_len(D.tracker) = Tracker_len(Tracker)
               /\ Tracker_keys(G, D.tracker) = Tracker_keys(G, Tracker)
               /\ Tracker_VacantSlot_key(G, Tracker_vacant_slot(D.tracker, Len(D.values)))
                      = reported
        /\ S.free_list_head = free_list_head
        /\ S.free_list_head \in 0..(n - 1)
        /\ F = FreeList(SparseArena)
                  \cup (IF free_list_head = Len(slots) THEN {Len(slots)} ELSE {})
        /\ \A i \in F :
               /\ is_empty(G, At(S.slots, i).generation)
               /\ link(i) \in F \cup {n}
               /\ link(i) # S.free_list_head
               /\ \A j \in F : link(i) = link(j) => i = j
        /\ \A v \in Values :
               /\ Arena_insert(kind, G, D, v).key = reported
               /\ Arena_insert_with(kind, G, D, KeyFn(v)).key = reported
               /\ Arena_insert(kind, G, Cur, v).key = reported
        /\ Arena_vacant_slot_dropped(kind, D) = D
        /\ Arena_VacantSlot_key(kind, G, D) = reported

\* after an abandoned vacant_slot(): the slot it pushed is the last one, never
\* filled, at the head of the free list, next to a live value
C34_Witness ==
    /\ DOMAIN map # {}
    /\ Len(slots) = 2
    /\ free_list_head = 1
    /\ At(slots, 1).generation = EMPTY
    /\ At(slots, 1).next_empty_slot = 2
    /\ \A key \in HandedOut : to_index(key) = 0
    /\ Arena_vacant_slot_dropped(kind, Cur) = Cur

\* C35 (insert fast path equals slow path): in a GenericSparseArena whose
\* free list is empty (free_list_head = slots.len()), insert(v), which pushes
\* an already filled slot, returns the same key and leaves the same slot
\* array, generations and free_list_head as insert_with(|_| v), which pushes
\* an empty slot and then fills it; here for the index type u8.
C35_InsertFastEqualsSlow ==
    free_list_head = Len(slots) =>
        \A v \in Values :
            LET fast == Ix_Sparse_insert("u8", G, SparseArena, v)
                slow == Ix_Sparse_insert_with("u8", G, SparseArena, ConstFn(v))
            IN  /\ fast.panic = slow.panic
                /\ fast.key = slow.key
                /\ fast.arena.slots = slow.arena.slots
                /\ fast.arena.free_list_head = slow.arena.free_list_head

\* C36 (growth only when no slot is reusable): insert and insert_with append
\* a slot to the slot array exactly when free_list_head = slots.len(), which
\* is exactly when no empty slot other than retired ones exists, and then
\* the key names the appended slot; whenever a non-retired empty slot exists
\* they fill the slot at the free-list head and slots.len() is unchanged.
C36_GrowthOnlyWhenFull ==
    LET old == Arena_slots(kind, Cur)
        n == Len(old)
        Retired(i) == /\ G = "saturating"
                      /\ \E d \in dead_keys : d.index = i /\ d.generation = MAX(G)
        reusable == {i \in 0..(n - 1) :
                        is_empty(G, At(old, i).generation) /\ ~Retired(i)}
        Results == {Arena_insert(kind, G, Cur, v) : v \in Values}
                       \cup {Arena_insert_with(kind, G, Cur, KeyFn(v)) : v \in Values}
    IN  /\ (free_list_head = n) <=> (reusable = {})
        /\ \A r \in Results :
               LET new == Arena_slots(kind, r.arena)
               IN  /\ ~r.panic
                   /\ IF reusable = {}
                      THEN /\ Len(new) = n + 1
                           /\ to_index(r.key) = n
                           /\ SubSeq(new, 1, n) = old
                      ELSE /\ Len(new) = n
                           /\ to_index(r.key) = free_list_head
                           /\ free_list_head \in reusable
                           /\ is_filled(G, At(new, free_list_head).generation)
                           /\ \A i \in 0..(n - 1) :
                                  i # free_list_head => At(new, i) = At(old, i)

\* a slot that was filled and emptied waits at the head of the free list
\* below a filled slot: the insert goes there and the array stays at two
C36_Witness ==
    /\ Len(slots) = 2
    /\ free_list_head = 0
    /\ At(slots, 0).generation # EMPTY
    /\ is_filled(G, At(slots, 1).generation)
    /\ \A v \in Values :
           /\ Len(Arena_slots(kind, Arena_insert(kind, G, Cur, v).arena)) = 2
           /\ to_index(Arena_insert(kind, G, Cur, v).key) = 0

\* C37 (tracker length check): GenericDenseTracker::vacant_slot(len) panics
\* exactly when len differs from the tracker's len(), and then the tracker is
\* left as it was; when it does not panic, VacantSlot::position() equals len,
\* and the key of the slot maps to that position once the slot is filled. The
\* dense arena always passes its values.len(), which never panics.
C37_TrackerLengthCheck ==
    kind = "dense" =>
        /\ \A len \in 0..(MaxSlots + 1) :
               LET vs == Tracker_vacant_slot(Tracker, len)
               IN  /\ vs.panic <=> (len # Tracker_len(Tracker))
                   /\ vs.panic => Tracker_vacant_slot_dropped(Tracker, len) = Tracker
                   /\ ~vs.panic =>
                          /\ Tracker_VacantSlot_position(vs) = len
                          /\ Tracker_get(G, Tracker_VacantSlot_insert(G, vs),
                                         Tracker_VacantSlot_key(G, vs)) = Some(len)
                          /\ Tracker_len(Tracker_VacantSlot_insert(G, vs)) = len + 1
        /\ ~Dense_vacant_slot(DenseArena).slot.panic
        /\ Tracker_VacantSlot_position(Dense_vacant_slot(DenseArena).slot) = Len(values)

\* a tracker of two keys: the lengths 0, 1 and 3 panic, the length 2 does not
C37_Witness ==
    /\ kind = "dense"
    /\ Tracker_len(Tracker) = 2
    /\ Tracker_vacant_slot(Tracker, 0).panic
    /\ Tracker_vacant_slot(Tracker, 1).panic
    /\ Tracker_vacant_slot(Tracker, 3).panic
    /\ ~Tracker_vacant_slot(Tracker, 2).panic
    /\ Tracker_VacantSlot_position(Tracker_vacant_slot(Tracker, 2)) = 2

\* C38 (slab length counter): after any sequence of Slab insert, insert_with,
\* vacant_slot().insert, abandoned vacant_slot(), remove and try_remove,
\* successful or not, len() equals the number of filled slots of the
\* underlying arena and is_empty() holds iff that number is 0.
C38_SlabLength ==
    LET filled == {i \in 1..Len(slots) : is_filled(G, slots[i].generation)}
    IN  /\ Slab_len(Slab) = Cardinality(filled)
        /\ Slab_is_empty(Slab) <=> (filled = {})

====
